---- MODULE Spec2Model ----
(***************************************************************************)
(* A model of the RFB client of src/lib/rfb.ts: the inbound ByteQueue, the *)
(* handshake and receive loop, the rectangle decoder, the deferred         *)
(* presentation and the outbound send queue with its watermarks.           *)
(*                                                                         *)
(* JavaScript runs one task at a time: an event listener runs to its end,  *)
(* and a continuation of the async reader runs before the next event.      *)
(* Every action below is one such task (or one step of the reader).        *)
(***************************************************************************)
EXTENDS Integers, Sequences, FiniteSets, TLC

\* ------------------------------------------------------------------ bounds
\* Number of single send() calls explored by the send-queue specification.
MaxSends == 5
\* Length of the one long run of send() calls a single task may make.
BurstLen == 66
\* Number of buffered-low notifications the browser may have queued.
MaxLowEvents == 2
\* Number of single sends, besides the long run, on the transport that
\* stays open.
MaxLiveSends == 2
\* Number of Blob messages whose bytes are being read at one time.
MaxBlobReads == 2
\* Number of bytes the server sends to the client that receives Blobs.
BlobStreamLen == 7
\* Number of keyboard events dispatched to the client.
MaxKeys == 4
\* Number of single inbound chunks explored by the byte-queue specification.
MaxChunks == 3
\* Length of the one long run of one-byte chunks that arrive with no read
\* in between.
ChunkBurst == 66

\* -------------------------------------------------------- program constants
bufferedLow == 256 * 1024
bufferedHigh == 1024 * 1024
\* flushSendQueue compacts the backlog once more than this many slots are
\* used up.
compactAfter == 64
\* readExactly compacts the chunk list once more than this many chunks are
\* used up.
chunksCompactAfter == 64

VARIABLES
  \* ByteQueue
  chunks,           \* the chunk list, consumed chunks included
  head,             \* index (0-based) of the chunk being read
  headOffset,       \* bytes of that chunk already read
  buffered,         \* unread bytes
  waiters,          \* resolvers of suspended readExactly calls
  isClosed,
  \* the reader: the one async call chain that awaits readExactly
  pc,               \* the await the reader is at
  rstate,           \* "idle", "run" (continuation queued) or "wait" (suspended)
  loc,              \* the reader's local variables
  \* inbound transport
  net,              \* bytes sent by the server and not yet delivered
  blobReads,        \* Blob messages whose arrayBuffer() has not resolved
  \* history
  arrived,          \* bytes that push() appended, in order
  consumed,         \* bytes that readExactly calls returned, in order
  lastRead,         \* outcome of the last readExactly that returned or threw
  statusLog,        \* the statuses reported to the status callback, in order
  \* RfbClient: framebuffer and decoder
  fbWidth,
  fbHeight,
  pf,               \* the pixel format used for decoding, or NULL
  imageData,        \* the RGBA bytes of the pixel buffer, or NULL
  framePresentPending,
  frames,           \* animation-frame callbacks requested and not yet run
  zlibStream,       \* the inflate context, or NULL
  zlibTarget,       \* the output array of the rectangle being inflated, or NULL
  zlibTargetOff,
  \* history
  trail,            \* the handshake states the reader has entered, in order
  decoded,          \* the rectangles decoded in full and blitted, in order
  midUpdate,        \* some but not all rectangles of an update are written
  updatesApplied,   \* FramebufferUpdates whose rectangles were all applied
  presentLog,       \* one entry for each putImageData call
  \* RfbClient
  sendQueue,        \* the backlog array, written slots included
  sendQueueHead,    \* index (0-based) of the next backlog message to write
  \* RTCDataChannel
  readyState,       \* "open" or "closed"
  bufferedAmount,   \* the transport's buffered-byte gauge
  lowEvents,        \* bufferedamountlow events queued and not yet dispatched
  \* history
  sendLog,          \* messages passed to send() while the transport was open
  wire,             \* messages passed to dc.send(), in call order
  held,             \* a message is held back by the high watermark and no
                    \* buffered-low notification has arrived since
  compactions,      \* number of times flushSendQueue has sliced the backlog
  refused,          \* send() has returned at once, the transport not open
  input             \* the state of the input handlers (pointer lock)

sendVars == <<sendQueue, sendQueueHead, readyState, bufferedAmount, lowEvents,
              sendLog, wire, held, compactions, refused>>
queueVars == <<chunks, head, headOffset, buffered, waiters, isClosed>>
readVars == <<pc, rstate, loc, net, blobReads, arrived, consumed, lastRead,
              statusLog>>
fbVars == <<fbWidth, fbHeight, pf, imageData, framePresentPending, frames,
            zlibStream,
            zlibTarget, zlibTargetOff, trail, decoded, midUpdate,
            updatesApplied, presentLog>>
vars == <<queueVars, readVars, sendVars, fbVars, input>>

Max(a, b) == IF a >= b THEN a ELSE b
Min(a, b) == IF a <= b THEN a ELSE b

\* An outbound message: an opaque blob, modelled by its content and its length.
Blob(bytes, len) == [bytes |-> bytes, byteLength |-> len]
Msg(bytes) == Blob(bytes, Len(bytes))

\* -------------------------------------------------------------- ByteQueue
\* The fields of the ByteQueue.
Q == [chunks |-> chunks, head |-> head, headOffset |-> headOffset,
      buffered |-> buffered, waiters |-> waiters, isClosed |-> isClosed]

\* push(chunk); the resolvers taken off the waiters list are all called. The
\* variant does not look at isClosed.
push_ignoresClosed(q, chunk) ==
  IF Len(chunk) = 0 THEN q
  ELSE [q EXCEPT !.chunks = Append(@, chunk),
                 !.buffered = @ + Len(chunk),
                 !.waiters = 0]
push(q, chunk) ==
  IF q.isClosed THEN q
  ELSE IF Len(chunk) = 0 THEN q
  ELSE [q EXCEPT !.chunks = Append(@, chunk),
                 !.buffered = @ + Len(chunk),
                 !.waiters = 0]

\* close()
\* close() that leaves the waiters parked.
close_keepsWaiters(q) == [q EXCEPT !.isClosed = TRUE]

close(q) == [q EXCEPT !.isClosed = TRUE, !.waiters = 0]

\* The copy loop copying from the start of the chunk instead of headOffset.
RECURSIVE copyLoop_fromChunkStart(_, _)
copyLoop_fromChunkStart(r, n) ==
  IF Len(r.out) < n
    THEN LET chunk == r.q.chunks[r.q.head + 1]
             avail == Len(chunk) - r.q.headOffset
             take == Min(avail, n - Len(r.out))
             piece == SubSeq(chunk, 1, take)
             q1 == [r.q EXCEPT !.headOffset = @ + take, !.buffered = @ - take]
             q2 == IF q1.headOffset = Len(chunk)
                     THEN [q1 EXCEPT !.head = @ + 1, !.headOffset = 0]
                     ELSE q1
         IN copyLoop_fromChunkStart([q |-> q2, out |-> r.out \o piece], n)
    ELSE r

\* The copy loop of readExactly: r.q is the queue, r.out the bytes written.
RECURSIVE copyLoop(_, _)
copyLoop(r, n) ==
  IF Len(r.out) < n
    THEN LET chunk == r.q.chunks[r.q.head + 1]
             avail == Len(chunk) - r.q.headOffset
             take == Min(avail, n - Len(r.out))
             piece == SubSeq(chunk, r.q.headOffset + 1, r.q.headOffset + take)
             q1 == [r.q EXCEPT !.headOffset = @ + take, !.buffered = @ - take]
             q2 == IF q1.headOffset = Len(chunk)
                     THEN [q1 EXCEPT !.head = @ + 1, !.headOffset = 0]
                     ELSE q1
         IN copyLoop([q |-> q2, out |-> r.out \o piece], n)
    ELSE r

\* readExactly(n) from the point where n bytes are buffered: the copy loop
\* and the compaction of the chunk list. The variant keeps the last
\* chunk it has read when it compacts.
readExactly_compactsOneLess(q, n) ==
  LET r == copyLoop([q |-> q, out |-> <<>>], n)
  IN IF r.q.head > chunksCompactAfter /\ r.q.head * 2 > Len(r.q.chunks)
       THEN [r EXCEPT !.q.chunks = SubSeq(@, r.q.head, Len(@)),
                      !.q.head = 0]
       ELSE r
readExactly(q, n) ==
  LET r == copyLoop([q |-> q, out |-> <<>>], n)
  IN IF r.q.head > chunksCompactAfter /\ r.q.head * 2 > Len(r.q.chunks)
       THEN [r EXCEPT !.q.chunks = SubSeq(@, r.q.head + 1, Len(@)),
                      !.q.head = 0]
       ELSE r

\* Write a ByteQueue record back to the variables.
CommitQ(q) ==
  /\ chunks' = q.chunks
  /\ head' = q.head
  /\ headOffset' = q.headOffset
  /\ buffered' = q.buffered
  /\ waiters' = q.waiters
  /\ isClosed' = q.isClosed

\* A resolver called by push() or close() queues the reader's continuation.
\* In the variant a push of no bytes calls the resolvers too, leaving them on
\* the list.
Woken_onEmptyPush(q) == IF waiters > 0 THEN "run" ELSE rstate
Woken(q) == IF waiters > 0 /\ q.waiters = 0 THEN "run" ELSE rstate

\* The chunks cs[i..] of a list joined, in order, after the bytes acc.
RECURSIVE FlattenFrom(_, _, _)
FlattenFrom(cs, i, acc) ==
  IF i > Len(cs) \/ Len(acc) < 0 THEN acc
  ELSE FlattenFrom(cs, i + 1, acc \o cs[i])

\* The chunks of a list joined, in order.
Flatten(cs) == FlattenFrom(cs, 1, <<>>)

\* The unread bytes of the queue, in order.
Unread ==
  IF head >= Len(chunks) THEN <<>>
  ELSE SubSeq(chunks[head + 1], headOffset + 1, Len(chunks[head + 1]))
       \o FlattenFrom(chunks, head + 2, <<>>)

\* ------------------------------------------------------------- send queue
\* The part of the client and transport state that send() reads and writes.
Tx == [q |-> sendQueue, h |-> sendQueueHead, ready |-> readyState,
       amt |-> bufferedAmount, log |-> sendLog, wire |-> wire, held |-> held,
       cmp |-> compactions, ref |-> refused]

\* dc.send(buf): the transport takes the message and its bytes join the gauge.
dcSend(s, buf) ==
  [s EXCEPT !.wire = Append(@, buf), !.amt = @ + buf.byteLength]

\* The while loop of flushSendQueue, a variant that writes only below the
\* low watermark and one that writes up to the high watermark.
RECURSIVE flushLoop_strictlyBelow(_)
flushLoop_strictlyBelow(s) ==
  IF s.h < Len(s.q) /\ s.amt < bufferedLow
    THEN flushLoop_strictlyBelow(dcSend([s EXCEPT !.h = @ + 1], s.q[s.h + 1]))
    ELSE s
RECURSIVE flushLoop_highWatermark(_)
flushLoop_highWatermark(s) ==
  IF s.h < Len(s.q) /\ s.amt <= bufferedHigh
    THEN flushLoop_highWatermark(dcSend([s EXCEPT !.h = @ + 1], s.q[s.h + 1]))
    ELSE s
RECURSIVE flushLoop(_)
flushLoop(s) ==
  IF s.h < Len(s.q) /\ s.amt <= bufferedLow
    THEN flushLoop(dcSend([s EXCEPT !.h = @ + 1], s.q[s.h + 1]))
    ELSE s

\* flushSendQueue with the compaction keeping the last written slot.
flushSendQueue_keepsWritten(s) ==
  IF s.ready # "open" THEN s
  ELSE LET t == flushLoop(s)
       IN IF t.h > compactAfter /\ t.h * 2 > Len(t.q)
            THEN [t EXCEPT !.q = SubSeq(t.q, t.h, Len(t.q)), !.h = 0,
                           !.cmp = @ + 1]
            ELSE t

flushSendQueue(s) ==
  IF s.ready # "open" THEN s
  ELSE LET t == flushLoop(s)
       IN IF t.h > compactAfter /\ t.h * 2 > Len(t.q)
            THEN [t EXCEPT !.q = SubSeq(t.q, t.h + 1, Len(t.q)), !.h = 0,
                           !.cmp = @ + 1]
            ELSE t

\* send with the low watermark where the code tests the high one.
send_lowWatermark(s, buf) ==
  IF s.ready # "open" THEN [s EXCEPT !.ref = TRUE]
  ELSE LET a == [s EXCEPT !.log = Append(@, buf)]
       IN IF a.h < Len(a.q) \/ a.amt > bufferedLow
            THEN [a EXCEPT !.q = Append(@, buf),
                           !.held = @ \/ a.amt > bufferedHigh]
            ELSE flushSendQueue(dcSend(a, buf))

\* send that also drains after putting the message in the backlog.
send_flushAfterPush(s, buf) ==
  IF s.ready # "open" THEN [s EXCEPT !.ref = TRUE]
  ELSE LET a == [s EXCEPT !.log = Append(@, buf)]
       IN IF a.h < Len(a.q) \/ a.amt > bufferedHigh
            THEN flushSendQueue([a EXCEPT !.q = Append(@, buf),
                                          !.held = @ \/ a.amt > bufferedHigh])
            ELSE flushSendQueue(dcSend(a, buf))

\* send that does not look at readyState (a write to a transport that is not
\* open goes nowhere, and the message stays in the backlog).
send_ignoresReadyState(s, buf) ==
  LET a == [s EXCEPT !.ref = @ \/ s.ready # "open",
                     !.log = IF s.ready = "open" THEN Append(@, buf) ELSE @]
  IN IF a.h < Len(a.q) \/ a.amt > bufferedHigh \/ s.ready # "open"
       THEN [a EXCEPT !.q = Append(@, buf),
                      !.held = @ \/ a.amt > bufferedHigh]
       ELSE flushSendQueue(dcSend(a, buf))

\* send that looks at the backlog only, not at the gauge.
send_writesWhenBacklogEmpty(s, buf) ==
  IF s.ready # "open" THEN [s EXCEPT !.ref = TRUE]
  ELSE LET a == [s EXCEPT !.log = Append(@, buf)]
       IN IF a.h < Len(a.q)
            THEN [a EXCEPT !.q = Append(@, buf),
                           !.held = @ \/ a.amt > bufferedHigh]
            ELSE flushSendQueue(dcSend(a, buf))
send(s, buf) ==
  IF s.ready # "open" THEN [s EXCEPT !.ref = TRUE]
  ELSE LET a == [s EXCEPT !.log = Append(@, buf)]
       IN IF a.h < Len(a.q) \/ a.amt > bufferedHigh
            THEN [a EXCEPT !.q = Append(@, buf),
                           !.held = @ \/ a.amt > bufferedHigh]
            ELSE flushSendQueue(dcSend(a, buf))

\* Write a Tx record back to the variables.
Commit(s) ==
  /\ sendQueue' = s.q
  /\ sendQueueHead' = s.h
  /\ bufferedAmount' = s.amt
  /\ sendLog' = s.log
  /\ wire' = s.wire
  /\ held' = s.held
  /\ compactions' = s.cmp
  /\ refused' = s.ref

Backlog == SubSeq(sendQueue, sendQueueHead + 1, Len(sendQueue))

\* ------------------------------------------------------------ wire formats
RFB_VERSION_38 == <<82, 70, 66, 32, 48, 48, 51, 46, 48, 48, 56, 10>>
RFB_ENCODING_RAW == 0
RFB_ENCODING_ZLIB == 6

\* A 32-bit quantity is held as its signed (int32) value.  The bytes of the
\* streams of the model keep unsigned 32-bit fields below 2^31.
\* DataView.getUint16 / getUint32 / getInt32, big-endian, of the bytes b.
getUint16(b) == b[1] * 256 + b[2]
getUint32(b) == ((b[1] * 256 + b[2]) * 256 + b[3]) * 256 + b[4]
getInt32(b) ==
  (((IF b[1] >= 128 THEN b[1] - 256 ELSE b[1]) * 256 + b[2]) * 256 + b[3]) * 256
  + b[4]

\* (v >>> k) & 0xff is (v \div 2^k) % 256, for a negative v too.
writeU16_littleEndian(v) == <<v % 256, (v \div 256) % 256>>
writeU16(v) == <<(v \div 256) % 256, v % 256>>
writeU32(v) ==
  <<(v \div 16777216) % 256, (v \div 65536) % 256, (v \div 256) % 256, v % 256>>
writeI32(v) == writeU32(v)

PixelFormat(bpp, depth, be, tc, rMax, gMax, bMax, rShift, gShift, bShift) ==
  [bitsPerPixel |-> bpp, depth |-> depth, bigEndian |-> be, trueColor |-> tc,
   redMax |-> rMax, greenMax |-> gMax, blueMax |-> bMax,
   redShift |-> rShift, greenShift |-> gShift, blueShift |-> bShift]

readPixelFormat(b) ==
  PixelFormat(b[1], b[2], b[3], b[4], getUint16(SubSeq(b, 5, 6)),
              getUint16(SubSeq(b, 7, 8)), getUint16(SubSeq(b, 9, 10)),
              b[11], b[12], b[13])

writePixelFormat(f) ==
  <<f.bitsPerPixel % 256, f.depth % 256, f.bigEndian % 256, f.trueColor % 256>>
  \o writeU16(f.redMax) \o writeU16(f.greenMax) \o writeU16(f.blueMax)
  \o <<f.redShift % 256, f.greenShift % 256, f.blueShift % 256, 0, 0, 0>>

\* The pixel format of sendPreferredPixelFormat.
preferredPixelFormat_keepsServers ==
  PixelFormat(16, 16, 0, 1, 31, 63, 31, 11, 5, 0)
preferredPixelFormat == PixelFormat(32, 24, 0, 1, 255, 255, 255, 16, 8, 0)

\* The client messages, as the bytes passed to send.
SetPixelFormat(f) == <<0, 0, 0, 0>> \o writePixelFormat(f)

RECURSIVE encodeEncodings(_)
encodeEncodings(encs) ==
  IF encs = <<>> THEN <<>>
  ELSE writeI32(Head(encs)) \o encodeEncodings(Tail(encs))

SetEncodings(encs) == <<2, 0>> \o writeU16(Len(encs)) \o encodeEncodings(encs)

FramebufferUpdateRequest(incremental, x, y, w, h) ==
  <<3, IF incremental THEN 1 ELSE 0>>
  \o writeU16(x) \o writeU16(y) \o writeU16(w) \o writeU16(h)

\* ---------------------------------------------------------------- decoder
\* A field that is null holds NULL; a field that is set holds Some(value).
NULL == <<>>
Some(v) == <<v>>

bytesPerPixel(f) ==
  IF f = NULL THEN 4 ELSE Max(1, f[1].bitsPerPixel \div 8)

isFastBgrx32(f) ==
  /\ f # NULL
  /\ f[1].bitsPerPixel = 32 /\ f[1].bigEndian = 0 /\ f[1].trueColor = 1
  /\ f[1].redMax = 255 /\ f[1].greenMax = 255 /\ f[1].blueMax = 255
  /\ f[1].redShift = 16 /\ f[1].greenShift = 8 /\ f[1].blueShift = 0

isFastRgbx32(f) ==
  /\ f # NULL
  /\ f[1].bitsPerPixel = 32 /\ f[1].bigEndian = 0 /\ f[1].trueColor = 1
  /\ f[1].redMax = 255 /\ f[1].greenMax = 255 /\ f[1].blueMax = 255
  /\ f[1].redShift = 0 /\ f[1].greenShift = 8 /\ f[1].blueShift = 16

\* raw[i] of a typed array, as a number operand (undefined counts as 0).
At(raw, i) == IF i >= 0 /\ i < Len(raw) THEN raw[i + 1] ELSE 0

\* a & b and a | b of two int32 values.
RECURSIVE BitAnd(_, _)
BitAnd(a, b) ==
  IF a = 0 \/ b = 0 THEN 0
  ELSE IF a = -1 THEN b
  ELSE IF b = -1 THEN a
  ELSE (a % 2) * (b % 2) + 2 * BitAnd(a \div 2, b \div 2)

RECURSIVE BitOr(_, _)
BitOr(a, b) ==
  IF a = 0 THEN b
  ELSE IF b = 0 THEN a
  ELSE IF a = -1 \/ b = -1 THEN -1
  ELSE Max(a % 2, b % 2) + 2 * BitOr(a \div 2, b \div 2)

\* v << s and v >> s of an int32 value v (the shift count is taken mod 32).
Shl32(v, s) ==
  LET k == s % 32
      m == 2^(31 - k)
      u == v % m
  IN IF k = 0 THEN v
     ELSE IF (v \div m) % 2 = 1 THEN (u - m) * 2^k ELSE u * 2^k

Sar32(v, s) ==
  LET k == s % 32
  IN IF k = 31 THEN (IF v < 0 THEN -1 ELSE 0) ELSE v \div 2^k

\* The pixel value that the generic path assembles from bytes i.. of a pixel.
RECURSIVE pixelBE(_, _, _, _, _)
pixelBE(raw, srcOff, n, i, pixel) ==
  IF i >= n THEN pixel
  ELSE pixelBE(raw, srcOff, n, i + 1,
               BitOr(Shl32(pixel, 8), At(raw, srcOff + i)))

RECURSIVE pixelLE(_, _, _, _, _)
pixelLE(raw, srcOff, n, i, pixel) ==
  IF i >= n THEN pixel
  ELSE pixelLE(raw, srcOff, n, i + 1,
               BitOr(pixel, Shl32(At(raw, srcOff + i), 8 * i)))

\* (pixel >> shift) & max, then scaled to 0..255 as the generic path stores it.
channel(pixel, shift, max) ==
  LET val == BitAnd(Sar32(pixel, shift), max)
  IN IF max = 255 THEN Min(255, val)
     ELSE IF max = 0 THEN 0
     ELSE Min(255, (2 * val * 255 + max) \div (2 * max))

\* The four bytes written for the pixel whose source bytes start at srcOff
\* (and, for each fast path, the bytes the other fast path would write).
rgbaBgrx_unswapped(raw, srcOff) ==
  <<At(raw, srcOff), At(raw, srcOff + 1), At(raw, srcOff + 2), 255>>
rgbaBgrx(raw, srcOff) ==
  <<At(raw, srcOff + 2), At(raw, srcOff + 1), At(raw, srcOff), 255>>
rgbaRgbx_swapped(raw, srcOff) ==
  <<At(raw, srcOff + 2), At(raw, srcOff + 1), At(raw, srcOff), 255>>
rgbaRgbx(raw, srcOff) ==
  <<At(raw, srcOff), At(raw, srcOff + 1), At(raw, srcOff + 2), 255>>
rgbaGeneric(f, raw, srcOff, bpp) ==
  LET pixel == IF f.bigEndian # 0 THEN pixelBE(raw, srcOff, bpp, 0, 0)
               ELSE pixelLE(raw, srcOff, bpp, 0, 0)
  IN <<channel(pixel, f.redShift, f.redMax),
       channel(pixel, f.greenShift, f.greenMax),
       channel(pixel, f.blueShift, f.blueMax), 255>>

\* dst[off + k] = bs[k] for k in 0..3; a store past the end is ignored. The
\* variant grows the array on such a store, as an untyped array would.
setBytes_growing(dst, off, bs) ==
  [k \in 1..Max(Len(dst), off + 4) |->
     IF k - 1 >= off /\ k - 1 < off + 4 THEN bs[k - off]
     ELSE IF k <= Len(dst) THEN dst[k] ELSE 0]
setBytes(dst, off, bs) ==
  [k \in 1..Len(dst) |->
     IF k - 1 >= off /\ k - 1 < off + 4 THEN bs[k - off] ELSE dst[k]]

\* The row/col loops of a blit, from the p-th pixel of the rectangle on.
RECURSIVE blitLoop(_, _, _)
blitLoop(dst, p, a) ==
  IF p >= a.w * a.h \/ Len(dst) < 0 THEN dst
  ELSE LET row == p \div a.w
           col == p % a.w
           dstOff == ((a.y + row) * a.fbW + a.x + col) * 4
           srcOff == p * a.bpp
           px == CASE a.path = "bgrx" -> rgbaBgrx(a.raw, srcOff)
                   [] a.path = "rgbx" -> rgbaRgbx(a.raw, srcOff)
                   [] OTHER -> rgbaGeneric(a.f, a.raw, srcOff, a.bpp)
       IN blitLoop(setBytes(dst, dstOff, px), p + 1, a)

blitRaw32leBgrx(dst, fbW, x, y, w, h, raw) ==
  blitLoop(dst, 0, [fbW |-> fbW, x |-> x, y |-> y, w |-> w, h |-> h,
                    raw |-> raw, bpp |-> 4, path |-> "bgrx"])

blitRaw32leRgbx(dst, fbW, x, y, w, h, raw) ==
  blitLoop(dst, 0, [fbW |-> fbW, x |-> x, y |-> y, w |-> w, h |-> h,
                    raw |-> raw, bpp |-> 4, path |-> "rgbx"])

blitRawGeneric(dst, f, fbW, x, y, w, h, raw, bpp) ==
  blitLoop(dst, 0, [fbW |-> fbW, x |-> x, y |-> y, w |-> w, h |-> h,
                    raw |-> raw, bpp |-> bpp, path |-> "generic", f |-> f])

\* blitRaw on the pixel buffer img with format f: the buffer afterwards, and
\* the message of the error it throws ("" when it returns).
blitRaw(img, f, fbW, x, y, w, h, raw, bpp) ==
  IF img = NULL \/ f = NULL THEN [img |-> img, error |-> ""]
  ELSE IF bpp = 4 /\ isFastBgrx32(f)
    THEN [img |-> Some(blitRaw32leBgrx(img[1], fbW, x, y, w, h, raw)),
          error |-> ""]
  ELSE IF bpp = 4 /\ isFastRgbx32(f)
    THEN [img |-> Some(blitRaw32leRgbx(img[1], fbW, x, y, w, h, raw)),
          error |-> ""]
  ELSE IF f[1].trueColor = 0
    THEN [img |-> img, error |-> "RFB trueColor=false not supported"]
  ELSE [img |-> Some(blitRawGeneric(img[1], f[1], fbW, x, y, w, h, raw, bpp)),
        error |-> ""]

\* The inflate context.  The compressed stream is modelled by a code with
\* literals and back-references: a byte below 255 stands for itself, and 255
\* repeats the last byte the context has put out, in this push or an earlier
\* one; a new context starts with last = 0.
Unzlib == [last |-> 0]
backRef == 255

RECURSIVE inflate(_, _, _)
inflate(zs, data, out) ==
  IF data = <<>> \/ Len(out) < 0 THEN [zs |-> zs, out |-> out]
  ELSE LET b == IF Head(data) = backRef THEN zs.last ELSE Head(data)
       IN inflate([zs EXCEPT !.last = b], Tail(data), Append(out, b))

\* inflateZlibRect(data, expectedLen) with the ondata callback of
\* ensureZlibStream, which push() calls once with the bytes it has inflated:
\* the fields afterwards, the contents of the array out that it allocated, and
\* the error thrown ("" when it returns out). The variant makes a new context
\* for each rectangle.
inflateZlibRect_freshContext(stream, data, expectedLen) ==
  LET r == inflate(Unzlib, data, <<>>)
      target == [k \in 1..expectedLen |-> 0]
      next == 0 + Len(r.out)
      filled == [k \in 1..expectedLen |->
                   IF k <= Len(r.out) THEN r.out[k] ELSE 0]
  IN IF expectedLen < 0
       THEN [zlibStream |-> stream, zlibTarget |-> NULL, zlibTargetOff |-> 0,
             out |-> <<>>, error |-> "Invalid zlib rect length"]
     ELSE IF next > Len(target)
       THEN [zlibStream |-> Some(r.zs), zlibTarget |-> Some(target),
             zlibTargetOff |-> 0, out |-> target,
             error |-> "Zlib rect overflow"]
     ELSE IF next # expectedLen
       THEN [zlibStream |-> Some(r.zs), zlibTarget |-> NULL,
             zlibTargetOff |-> next, out |-> filled,
             error |-> "Zlib rect size mismatch"]
     ELSE [zlibStream |-> Some(r.zs), zlibTarget |-> NULL,
           zlibTargetOff |-> next, out |-> filled, error |-> ""]

inflateZlibRect(stream, data, expectedLen) ==
  LET zs == IF stream = NULL THEN Unzlib ELSE stream[1]
      r == inflate(zs, data, <<>>)
      target == [k \in 1..expectedLen |-> 0]
      next == 0 + Len(r.out)
      filled == [k \in 1..expectedLen |->
                   IF k <= Len(r.out) THEN r.out[k] ELSE 0]
  IN IF expectedLen < 0
       THEN [zlibStream |-> stream, zlibTarget |-> NULL, zlibTargetOff |-> 0,
             out |-> <<>>, error |-> "Invalid zlib rect length"]
     ELSE IF next > Len(target)
       THEN [zlibStream |-> Some(r.zs), zlibTarget |-> Some(target),
             zlibTargetOff |-> 0, out |-> target,
             error |-> "Zlib rect overflow"]
     ELSE IF next # expectedLen
       THEN [zlibStream |-> Some(r.zs), zlibTarget |-> NULL,
             zlibTargetOff |-> next, out |-> filled,
             error |-> "Zlib rect size mismatch"]
     ELSE [zlibStream |-> Some(r.zs), zlibTarget |-> NULL,
           zlibTargetOff |-> next, out |-> filled, error |-> ""]

\* ------------------------------------------------------------- the server
\* What a server can put on the transport, as bytes.
Banner(minor) == <<82, 70, 66, 32, 48, 48, 51, 46, 48, 48, minor, 10>>
NotRfb == <<72, 84, 84, 80, 47, 49, 46, 49, 32, 52, 48, 48>>
SecurityTypes(types) == <<Len(types)>> \o types
SecurityFailure(reason) == <<0>> \o writeU32(Len(reason)) \o reason
SecurityResult(v) == writeU32(v)
ServerInit(w, h, f, name) ==
  writeU16(w) \o writeU16(h) \o writePixelFormat(f)
  \o writeU32(Len(name)) \o name
RectHeader(x, y, w, h, enc) ==
  writeU16(x) \o writeU16(y) \o writeU16(w) \o writeU16(h) \o writeI32(enc)
RawRect(x, y, w, h, data) == RectHeader(x, y, w, h, RFB_ENCODING_RAW) \o data
ZlibRect(x, y, w, h, z) ==
  RectHeader(x, y, w, h, RFB_ENCODING_ZLIB) \o writeU32(Len(z)) \o z
FramebufferUpdate(n, rects) == <<0, 0>> \o writeU16(n) \o rects
Bell == <<2>>
ServerCutText(text) == <<3, 0, 0, 0>> \o writeU32(Len(text)) \o text

\* The server's own format in ServerInit (16 bits per pixel, 5-6-5).
serverPixelFormat == PixelFormat(16, 16, 0, 1, 31, 63, 31, 11, 5, 0)
\* A handshake of a server with a framebuffer two pixels wide and one high.
Hello(minor) ==
  Banner(minor)
  \o SecurityTypes(IF minor = 51 THEN <<1, 2>> ELSE <<2, 1>>)
  \o SecurityResult(0)
  \o ServerInit(2, 1, serverPixelFormat, <<120>>)

PixA == <<1, 2, 3, 0>>
PixB == <<4, 5, 6, 0>>
PixC == <<7, 8, 9, 0>>

\* The byte streams the server side of the model can send.
Scripts ==
  { NotRfb,
    Banner(56) \o SecurityFailure(<<110, 111>>),
    Banner(56) \o SecurityTypes(<<2>>) \o SecurityResult(0)
      \o ServerInit(2, 1, serverPixelFormat, <<120>>),
    Banner(56) \o SecurityTypes(<<1>>) \o SecurityResult(1),
    Hello(51)
      \o FramebufferUpdate(1, RawRect(0, 0, 1, 1, PixA))
      \o Bell
      \o FramebufferUpdate(2, RawRect(1, 0, 1, 1, PixB)
                              \o RawRect(0, 0, 1, 1, PixC))
      \o ServerCutText(<<104, 105>>)
      \o FramebufferUpdate(0, <<>>),
    Hello(56)
      \o FramebufferUpdate(2, ZlibRect(0, 0, 1, 1, <<1, 2, 3, backRef>>)
                              \o RawRect(0, 0, 0, 1, <<>>))
      \o FramebufferUpdate(2, ZlibRect(0, 0, 0, 0, <<>>)
                              \o ZlibRect(1, 0, 1, 1, <<backRef, 5, 6, 0>>)),
    Hello(56)
      \o FramebufferUpdate(2, RawRect(0, 0, 1, 1, PixA)
                              \o ZlibRect(1, 0, 1, 1, <<4, 5, 6>>)),
    Hello(56)
      \o FramebufferUpdate(2, RawRect(0, 0, 1, 1, PixA)
                              \o ZlibRect(1, 0, 1, 1, <<4, 5, 6, 0, 0>>)),
    Hello(56)
      \o FramebufferUpdate(2, RawRect(0, 0, 1, 1, PixA)
                              \o RectHeader(1, 0, 1, 1, 5))
      \o FramebufferUpdate(1, RawRect(0, 0, 1, 1, PixB)),
    Hello(56)
      \o FramebufferUpdate(2, RawRect(1, 0, 2, 1, PixA \o PixB)
                              \o RawRect(0, 1, 1, 1, PixC)),
    Banner(56) \o SecurityTypes(<<1>>) \o SecurityResult(0)
      \o ServerInit(0, 1, serverPixelFormat, <<120>>),
    Hello(56) \o <<9>> \o ServerCutText(<<104, 105>>) }

\* ------------------------------------------------------------- transport
MsgLens == {1, bufferedLow}
DrainAmounts == {bufferedLow}
ChunkLens == {0, 2, 3}
ReadLens == {0, 2, 5}
SegmentLens == {0, 7, 24}

\* send() called for each message of a sequence, with no event in between
\* (on a transport that is not open every call returns at once).
RECURSIVE sendAll(_, _)
sendAll(s, bufs) ==
  IF bufs = <<>> THEN s
  ELSE IF s.ready # "open" THEN send(s, Head(bufs))
  ELSE sendAll(send(s, Head(bufs)), Tail(bufs))

\* The single sends made so far: the model explores at most one long run.
SinglesSent ==
  IF Len(sendLog) >= BurstLen THEN Len(sendLog) - BurstLen ELSE Len(sendLog)

\* Events are dispatched only when no continuation of the reader is queued:
\* promise continuations run before the next event.
NoMicrotask == rstate # "run"

\* A task of a caller hands send() its next message, or a run of messages;
\* the messages are numbered so that any two differ.
ClientSend ==
  /\ NoMicrotask
  /\ \E k \in {1, BurstLen}, len \in MsgLens :
       /\ k = 1 => SinglesSent < MaxSends
       /\ k = BurstLen => Len(sendLog) < BurstLen
       /\ Commit(sendAll(Tx, [i \in 1..k |-> Blob(<<Len(sendLog) + i>>, len)]))
  /\ UNCHANGED <<readyState, lowEvents, queueVars, readVars, fbVars>>
  /\ UNCHANGED input

\* The network takes bytes off the transport's buffer; the browser queues a
\* bufferedamountlow event when the gauge falls to the threshold from above.
Drain ==
  /\ NoMicrotask
  /\ readyState = "open"
  /\ bufferedAmount > 0
  /\ \E d \in DrainAmounts :
       LET new == Max(0, bufferedAmount - d)
           crossing == bufferedAmount > bufferedLow /\ new <= bufferedLow
       IN /\ crossing => lowEvents < MaxLowEvents
          /\ bufferedAmount' = new
          /\ lowEvents' = IF crossing THEN lowEvents + 1 ELSE lowEvents
  /\ UNCHANGED <<sendQueue, sendQueueHead, readyState, sendLog, wire, held,
                 compactions, refused, queueVars, readVars, fbVars>>
  /\ UNCHANGED input

\* The bufferedamountlow listener.
BufferedAmountLow ==
  /\ NoMicrotask
  /\ lowEvents > 0
  /\ lowEvents' = lowEvents - 1
  /\ Commit(flushSendQueue([Tx EXCEPT !.held = FALSE]))
  /\ UNCHANGED <<readyState, queueVars, readVars, fbVars>>
  /\ UNCHANGED input

\* The close listener.
TransportClose ==
  /\ NoMicrotask
  /\ readyState = "open"
  /\ readyState' = "closed"
  /\ CommitQ(close(Q))
  /\ rstate' = Woken(close(Q))
  /\ sendQueue' = <<>>
  /\ sendQueueHead' = 0
  /\ statusLog' = Append(statusLog, [state |-> "closed"])
  /\ UNCHANGED <<bufferedAmount, lowEvents, sendLog, wire, held, compactions,
                 refused,
                 pc, loc, net, blobReads, arrived, consumed, lastRead,
                 fbVars>>
  /\ UNCHANGED input

\* The message listener, for a binary message of len bytes (the transport is
\* set to deliver ArrayBuffers).
OnMessage(len) ==
  LET chunk == SubSeq(net, 1, len)
      q == push(Q, chunk)
  IN /\ CommitQ(q)
     /\ rstate' = Woken(q)
     /\ net' = SubSeq(net, len + 1, Len(net))
     /\ arrived' = IF q = Q THEN arrived ELSE arrived \o chunk
     /\ UNCHANGED blobReads

\* The transport delivers the next bytes of the server as one message.
Deliver ==
  /\ NoMicrotask
  /\ readyState = "open"
  /\ \E len \in ChunkLens :
       /\ len <= Len(net)
       /\ len = 0 \/ Len(chunks) < MaxChunks \/ Len(chunks) >= ChunkBurst
       /\ len = 0 \/ Len(chunks) < ChunkBurst + MaxChunks
       /\ OnMessage(len)
  /\ UNCHANGED <<pc, loc, consumed, lastRead, statusLog, sendVars, fbVars>>
  /\ UNCHANGED input

\* The message listener, for a message that arrives as a Blob: its bytes are
\* read with arrayBuffer(), and pushed when that promise resolves.
ReceiveBlob ==
  /\ NoMicrotask
  /\ readyState = "open"
  /\ Len(blobReads) < MaxBlobReads
  /\ \E len \in ChunkLens :
       /\ len <= Len(net)
       /\ blobReads' = Append(blobReads, SubSeq(net, 1, len))
       /\ net' = SubSeq(net, len + 1, Len(net))
  /\ UNCHANGED <<queueVars, pc, rstate, loc, arrived, consumed, lastRead,
                 statusLog, sendVars, fbVars>>
  /\ UNCHANGED input

\* The arrayBuffer() promise of the oldest pending Blob resolves: its
\* continuation pushes the bytes.
BlobResolves ==
  /\ NoMicrotask
  /\ blobReads # <<>>
  /\ LET chunk == Head(blobReads)
         q == push(Q, chunk)
     IN /\ CommitQ(q)
        /\ rstate' = Woken(q)
        /\ arrived' = IF q = Q THEN arrived ELSE arrived \o chunk
  /\ blobReads' = Tail(blobReads)
  /\ UNCHANGED <<pc, loc, net, consumed, lastRead, statusLog, sendVars,
                 fbVars>>
  /\ UNCHANGED input

\* ---------------------------------------------------------------- reader
\* The number of bytes the reader's pending readExactly asks for.
Need ==
  CASE pc = "read" -> loc.n
    [] pc = "version" -> 12
    [] pc \in {"nSec", "msgType", "fuPadding"} -> 1
    [] pc \in {"width", "height", "fuRects", "rectX", "rectY", "rectW", "rectH"}
         -> 2
    [] pc = "cutPadding" -> 3
    [] pc \in {"reasonLen", "secResult", "nameLen", "rectEnc", "zlen", "cutLen"}
         -> 4
    [] pc = "pixelFormat" -> 16
    [] pc = "secTypes" -> loc.nSec
    [] pc \in {"reason", "name", "zdata", "cutText"} -> loc.len
    [] pc = "raw" -> loc.w * loc.h * bytesPerPixel(pf)
    [] OTHER -> 0

\* while (!this.isClosed && this.buffered < n) await ...: the reader suspends.
ReaderSuspend ==
  /\ rstate = "run"
  /\ ~isClosed /\ buffered < Need
  /\ waiters' = waiters + 1
  /\ rstate' = "wait"
  /\ UNCHANGED <<chunks, head, headOffset, buffered, isClosed, pc, loc, net,
                 blobReads,
                 arrived, consumed, lastRead, statusLog, sendVars, fbVars>>
  /\ UNCHANGED input

\* The bytes of a readExactly(n) that returns: taken off the queue.
Took(n) ==
  LET r == readExactly(Q, n)
  IN /\ chunks' = r.q.chunks
     /\ head' = r.q.head
     /\ headOffset' = r.q.headOffset
     /\ buffered' = r.q.buffered
     /\ consumed' = consumed \o r.out
     /\ lastRead' = [n |-> n, out |-> r.out, error |-> ""]

\* The bytes that the pending readExactly returns when it returns now.
Bytes == readExactly(Q, Need).out

\* -------------------------------------------------- a caller of readExactly
\* A caller with no read pending calls readExactly(n).
CallRead ==
  /\ pc = "idle" /\ rstate = "idle"
  /\ \E n \in ReadLens :
       /\ pc' = "read"
       /\ rstate' = "run"
       /\ loc' = [n |-> n]
  /\ UNCHANGED <<queueVars, net, blobReads, arrived, consumed, lastRead,
                 statusLog,
                 sendVars, fbVars>>
  /\ UNCHANGED input

\* The caller's readExactly returns its bytes.
ReadReturns ==
  /\ pc = "read" /\ rstate = "run"
  /\ buffered >= Need
  /\ Took(Need)
  /\ pc' = "idle" /\ rstate' = "idle"
  /\ UNCHANGED <<waiters, isClosed, loc, net, blobReads, arrived, statusLog,
                 sendVars,
                 fbVars>>
  /\ UNCHANGED input

\* The caller's readExactly throws "connection closed".
ReadThrows ==
  /\ pc = "read" /\ rstate = "run"
  /\ isClosed /\ buffered < Need
  /\ lastRead' = [n |-> Need, out |-> <<>>, error |-> "connection closed"]
  /\ pc' = "idle" /\ rstate' = "idle"
  /\ UNCHANGED <<queueVars, loc, net, blobReads, arrived, consumed, statusLog,
                 sendVars,
                 fbVars>>
  /\ UNCHANGED input

\* push() called for each chunk of a sequence (a closed queue drops them all).
RECURSIVE pushAll(_, _)
pushAll(q, cs) ==
  IF cs = <<>> \/ q.isClosed THEN q
  ELSE pushAll(push(q, Head(cs)), Tail(cs))

\* The long run of one-byte messages, delivered while no read is pending.
DeliverRun ==
  /\ rstate = "idle"
  /\ readyState = "open"
  /\ Len(chunks) < ChunkBurst
  /\ Len(net) >= ChunkBurst
  /\ LET q == pushAll(Q, [i \in 1..ChunkBurst |-> <<net[i]>>])
     IN /\ CommitQ(q)
        /\ net' = SubSeq(net, ChunkBurst + 1, Len(net))
        /\ arrived' = IF isClosed THEN arrived
                      ELSE arrived \o SubSeq(net, 1, ChunkBurst)
  /\ UNCHANGED blobReads
  /\ UNCHANGED <<pc, rstate, loc, consumed, lastRead, statusLog, sendVars,
                 fbVars>>
  /\ UNCHANGED input

\* ------------------------------------------------------------- the client
\* The handshake state in which the reader is at position p.
Phase(p) ==
  CASE p = "new" -> "None"
    [] p = "version" -> "AwaitVersion"
    [] p \in {"nSec", "reasonLen", "reason", "secTypes"} -> "AwaitSecurityTypes"
    [] p = "secResult" -> "AwaitSecurityResult"
    [] p \in {"width", "height", "pixelFormat", "nameLen", "name"}
         -> "AwaitServerInit"
    [] OTHER -> "Ready"

\* The framebuffer and decoder fields and their history, without the trail.
fbState == <<fbWidth, fbHeight, pf, imageData, framePresentPending, frames,
             zlibStream,
             zlibTarget, zlibTargetOff, decoded, midUpdate, updatesApplied,
             presentLog>>

\* The locals of the reader before start().
NoLocals ==
  [nSec |-> 0, len |-> 0, width |-> 0, height |-> 0, pixelFormat |-> NULL,
   rects |-> 0, i |-> 0, x |-> 0, y |-> 0, w |-> 0, h |-> 0, enc |-> 0]

\* new TextDecoder().decode(b), as code points, for bytes that hold no
\* multi-byte sequence: a byte of 128 or more decodes to U+FFFD.
TextDecode(b) == [k \in 1..Len(b) |-> IF b[k] < 128 THEN b[k] ELSE 65533]

\* The senders of the client.
sendU8(s, v) == send(s, Msg(<<v % 256>>))

\* sendAscii answering with the bytes just read instead of its argument.
sendAscii_echoesBanner(s, bytes) == send(s, Msg(Bytes))

sendAscii(s, bytes) == send(s, Msg(bytes))
sendSetPixelFormat(s, f) == send(s, Msg(SetPixelFormat(f)))
sendSetEncodings(s, encs) == send(s, Msg(SetEncodings(encs)))

\* sendFramebufferUpdateRequest that never asks incrementally.
sendFramebufferUpdateRequest_alwaysFull(s, incremental, x, y, w, h) ==
  send(s, Msg(FramebufferUpdateRequest(FALSE, x, y, w, h)))

sendFramebufferUpdateRequest(s, incremental, x, y, w, h) ==
  send(s, Msg(FramebufferUpdateRequest(incremental, x, y, w, h)))

\* The reader goes on to its next await, at position p with locals l.
Goto(p, l) ==
  /\ pc' = p
  /\ loc' = l
  /\ rstate' = "run"
  /\ trail' = IF Phase(p) # Phase(pc) THEN Append(trail, Phase(p)) ELSE trail

\* The await at position p returns its bytes.
Returns(p) ==
  /\ pc = p /\ rstate = "run"
  /\ buffered >= Need
  /\ Took(Need)

\* An error thrown in handshake(): start() rejects, and the catch of the
\* caller of start() passes an error status to the status callback.
Rejects(msg) ==
  /\ pc' = "failed"
  /\ rstate' = "idle"
  /\ statusLog' = Append(statusLog, [state |-> "error", error |-> msg])
  /\ UNCHANGED <<waiters, isClosed, loc, trail>>

\* An error thrown in readLoop(): its catch reports it and closes the queue
\* (in the variant it reports it only).
Stops_keepsOpen(msg) ==
  /\ pc' = "stopped"
  /\ rstate' = "idle"
  /\ statusLog' = Append(statusLog, [state |-> "error", error |-> msg])
  /\ UNCHANGED <<isClosed, waiters, loc, trail>>
Stops(msg) ==
  /\ pc' = "stopped"
  /\ rstate' = "idle"
  /\ statusLog' = Append(statusLog, [state |-> "error", error |-> msg])
  /\ isClosed' = TRUE
  /\ waiters' = 0
  /\ UNCHANGED <<loc, trail>>

Throws(msg) == IF Phase(pc) = "Ready" THEN Stops(msg) ELSE Rejects(msg)

\* negotiateProtocol
ReadVersion ==
  /\ Returns("version")
  /\ IF SubSeq(TextDecode(Bytes), 1, 4) # <<82, 70, 66, 32>>
       THEN /\ Rejects("bad RFB version")
            /\ UNCHANGED sendVars
       ELSE /\ Commit(sendAscii(Tx, RFB_VERSION_38))
            /\ Goto("nSec", loc)
            /\ UNCHANGED <<waiters, isClosed, statusLog, readyState, lowEvents>>
  /\ UNCHANGED <<net, blobReads, arrived, fbState>>
  /\ UNCHANGED input

\* negotiateSecurity
ReadSecurityCount ==
  /\ Returns("nSec")
  /\ IF Bytes[1] = 0
       THEN Goto("reasonLen", loc)
       ELSE Goto("secTypes", [loc EXCEPT !.nSec = Bytes[1]])
  /\ UNCHANGED <<waiters, isClosed, net, blobReads, arrived, statusLog,
                 sendVars, fbState>>
  /\ UNCHANGED input

ReadReasonLength ==
  /\ Returns("reasonLen")
  /\ Goto("reason", [loc EXCEPT !.len = getUint32(Bytes)])
  /\ UNCHANGED <<waiters, isClosed, net, blobReads, arrived, statusLog,
                 sendVars, fbState>>
  /\ UNCHANGED input

ReadReason ==
  /\ Returns("reason")
  /\ Rejects("RFB security failed")
  /\ UNCHANGED <<net, blobReads, arrived, sendVars, fbState>>
  /\ UNCHANGED input

\* secTypes.includes(1), with a variant that looks at the first type only.
includesNone_firstOnly(secTypes) == secTypes # <<>> /\ secTypes[1] = 1
includesNone(secTypes) == \E k \in 1..Len(secTypes) : secTypes[k] = 1

ReadSecurityTypes ==
  /\ Returns("secTypes")
  /\ IF ~includesNone(Bytes)
       THEN /\ Rejects("RFB: server does not support 'None' security")
            /\ UNCHANGED sendVars
       ELSE /\ Commit(sendU8(Tx, 1))
            /\ Goto("secResult", loc)
            /\ UNCHANGED <<waiters, isClosed, statusLog, readyState, lowEvents>>
  /\ UNCHANGED <<net, blobReads, arrived, fbState>>
  /\ UNCHANGED input

\* The variant sends the shared flag before it looks at the result.
ReadSecurityResult_flagFirst ==
  /\ Returns("secResult")
  /\ Commit(sendU8(Tx, 1))
  /\ IF getUint32(Bytes) # 0
       THEN Rejects("RFB security result")
       ELSE /\ Goto("width", loc)
            /\ UNCHANGED <<waiters, isClosed, statusLog>>
  /\ UNCHANGED <<readyState, lowEvents, net, blobReads, arrived, fbState>>
  /\ UNCHANGED input
ReadSecurityResult ==
  /\ Returns("secResult")
  /\ IF getUint32(Bytes) # 0
       THEN /\ Rejects("RFB security result")
            /\ UNCHANGED sendVars
       ELSE /\ Commit(sendU8(Tx, 1))
            /\ Goto("width", loc)
            /\ UNCHANGED <<waiters, isClosed, statusLog, readyState, lowEvents>>
  /\ UNCHANGED <<net, blobReads, arrived, fbState>>
  /\ UNCHANGED input

\* readServerInit
ReadWidth ==
  /\ Returns("width")
  /\ Goto("height", [loc EXCEPT !.width = getUint16(Bytes)])
  /\ UNCHANGED <<waiters, isClosed, net, blobReads, arrived, statusLog,
                 sendVars, fbState>>
  /\ UNCHANGED input

ReadHeight ==
  /\ Returns("height")
  /\ Goto("pixelFormat", [loc EXCEPT !.height = getUint16(Bytes)])
  /\ UNCHANGED <<waiters, isClosed, net, blobReads, arrived, statusLog,
                 sendVars, fbState>>
  /\ UNCHANGED input

ReadPixelFormat ==
  /\ Returns("pixelFormat")
  /\ Goto("nameLen", [loc EXCEPT !.pixelFormat = Some(readPixelFormat(Bytes))])
  /\ UNCHANGED <<waiters, isClosed, net, blobReads, arrived, statusLog,
                 sendVars, fbState>>
  /\ UNCHANGED input

ReadNameLength ==
  /\ Returns("nameLen")
  /\ Goto("name", [loc EXCEPT !.len = getUint32(Bytes)])
  /\ UNCHANGED <<waiters, isClosed, net, blobReads, arrived, statusLog,
                 sendVars, fbState>>
  /\ UNCHANGED input

\* The last read of readServerInit, then the rest of handshake() and of
\* start(), up to the first await of readLoop().
\* createImageData throws IndexSizeError when the width or the height is zero;
\* initFramebuffer has assigned the size and the server's format by then.
ReadName ==
  /\ Returns("name")
  /\ fbWidth' = loc.width
  /\ fbHeight' = loc.height
  /\ IF loc.width = 0 \/ loc.height = 0
       THEN /\ pf' = loc.pixelFormat
            /\ Rejects("IndexSizeError")
            /\ UNCHANGED <<imageData, sendVars>>
       ELSE /\ imageData' = Some([k \in 1..(loc.width * loc.height * 4) |-> 0])
            /\ pf' = Some(preferredPixelFormat)
            /\ Commit(sendFramebufferUpdateRequest(
                        sendSetEncodings(
                          sendSetPixelFormat(Tx, preferredPixelFormat),
                          <<RFB_ENCODING_ZLIB, RFB_ENCODING_RAW>>),
                        FALSE, 0, 0, loc.width, loc.height))
            /\ statusLog' = statusLog \o
                 <<[state |-> "connected", width |-> loc.width,
                    height |-> loc.height, name |-> TextDecode(Bytes)],
                   [state |-> "connected", width |-> loc.width,
                    height |-> loc.height, name |-> <<>>]>>
            /\ Goto("msgType", loc)
            /\ UNCHANGED <<waiters, isClosed, readyState, lowEvents>>
  /\ UNCHANGED <<net, blobReads, arrived,
                 framePresentPending, frames, zlibStream, zlibTarget,
                 zlibTargetOff,
                 decoded, midUpdate, updatesApplied, presentLog>>
  /\ input' = IF loc.width = 0 \/ loc.height = 0 THEN input
              ELSE [input EXCEPT !.attached = TRUE]

\* ---------------------------------------------------------------- readLoop
\* The rectangle of the reader's locals with its decoded pixel bytes.
Rect(raw) == [x |-> loc.x, y |-> loc.y, w |-> loc.w, h |-> loc.h, raw |-> raw]

\* expectedLen of the rectangle whose header has been read.
expectedLen == loc.w * loc.h * bytesPerPixel(pf)

\* presentFrameSoon, for the pixel buffer img: one animation-frame callback
\* is requested unless one is pending. The variant requests one each time.
presentFrameSoon_unguarded(img) ==
  IF img = NULL THEN UNCHANGED <<framePresentPending, frames>>
  ELSE framePresentPending' = TRUE /\ frames' = frames + 1
presentFrameSoon(img) ==
  IF framePresentPending \/ img = NULL
    THEN UNCHANGED <<framePresentPending, frames>>
    ELSE framePresentPending' = TRUE /\ frames' = frames + 1

\* The end of one pass of the rectangle loop that did not throw, where img is
\* the pixel buffer and dec the decoded rectangles after it, and wrote tells
\* whether it blitted: the loop goes on to the next rectangle, or ends, and
\* then handleFramebufferUpdate calls presentFrameSoon and returns, and
\* readLoop sends the next update request and awaits the next message.
AfterRect(img, dec, wrote) ==
  LET l == [loc EXCEPT !.i = @ + 1]
  IN /\ imageData' = img
     /\ decoded' = dec
     /\ IF l.i < l.rects
          THEN /\ Goto("rectX", l)
               /\ midUpdate' = (midUpdate \/ wrote)
               /\ UNCHANGED <<framePresentPending, frames, updatesApplied,
                              sendVars>>
          ELSE /\ Goto("msgType", l)
               /\ midUpdate' = FALSE
               /\ updatesApplied' = updatesApplied + 1
               /\ presentFrameSoon(img)
               /\ Commit(sendFramebufferUpdateRequest(Tx, TRUE, 0, 0, fbWidth,
                                                      fbHeight))
               /\ UNCHANGED <<readyState, lowEvents>>

ReadMessageType ==
  /\ Returns("msgType")
  /\ IF Bytes[1] \in {0, 2, 3}
       THEN /\ Goto(CASE Bytes[1] = 0 -> "fuPadding"
                      [] Bytes[1] = 2 -> "msgType"
                      [] Bytes[1] = 3 -> "cutPadding", loc)
            /\ UNCHANGED <<waiters, isClosed, statusLog>>
       ELSE Stops("Unhandled server message")
  /\ UNCHANGED <<net, blobReads, arrived, sendVars, fbState>>
  /\ UNCHANGED input

\* handleFramebufferUpdate
ReadPadding ==
  /\ Returns("fuPadding")
  /\ Goto("fuRects", loc)
  /\ UNCHANGED <<waiters, isClosed, net, blobReads, arrived, statusLog,
                 sendVars, fbState>>
  /\ UNCHANGED input

ReadRectCount ==
  /\ Returns("fuRects")
  /\ LET l == [loc EXCEPT !.rects = getUint16(Bytes), !.i = 0]
     IN IF imageData # NULL /\ 0 < l.rects
          THEN /\ Goto("rectX", l)
               /\ UNCHANGED <<sendVars, fbState>>
          ELSE /\ Goto("msgType", l)
               /\ updatesApplied' = updatesApplied + 1
               /\ presentFrameSoon(imageData)
               /\ Commit(sendFramebufferUpdateRequest(Tx, TRUE, 0, 0, fbWidth,
                                                      fbHeight))
               /\ UNCHANGED <<readyState, lowEvents, fbWidth, fbHeight, pf,
                              imageData, zlibStream, zlibTarget, zlibTargetOff,
                              decoded, midUpdate, presentLog>>
  /\ UNCHANGED <<waiters, isClosed, net, blobReads, arrived, statusLog>>
  /\ UNCHANGED input

ReadRectX ==
  /\ Returns("rectX")
  /\ Goto("rectY", [loc EXCEPT !.x = getUint16(Bytes)])
  /\ UNCHANGED <<waiters, isClosed, net, blobReads, arrived, statusLog,
                 sendVars, fbState>>
  /\ UNCHANGED input

ReadRectY ==
  /\ Returns("rectY")
  /\ Goto("rectW", [loc EXCEPT !.y = getUint16(Bytes)])
  /\ UNCHANGED <<waiters, isClosed, net, blobReads, arrived, statusLog,
                 sendVars, fbState>>
  /\ UNCHANGED input

ReadRectW ==
  /\ Returns("rectW")
  /\ Goto("rectH", [loc EXCEPT !.w = getUint16(Bytes)])
  /\ UNCHANGED <<waiters, isClosed, net, blobReads, arrived, statusLog,
                 sendVars, fbState>>
  /\ UNCHANGED input

ReadRectH ==
  /\ Returns("rectH")
  /\ Goto("rectEnc", [loc EXCEPT !.h = getUint16(Bytes)])
  /\ UNCHANGED <<waiters, isClosed, net, blobReads, arrived, statusLog,
                 sendVars, fbState>>
  /\ UNCHANGED input

ReadRectEncoding ==
  /\ Returns("rectEnc")
  /\ LET enc == getInt32(Bytes)
     IN CASE enc = RFB_ENCODING_RAW /\ expectedLen = 0 ->
               /\ AfterRect(imageData, decoded, FALSE)
               /\ UNCHANGED <<waiters, isClosed, statusLog>>
          [] enc = RFB_ENCODING_RAW /\ expectedLen # 0 ->
               /\ Goto("raw", [loc EXCEPT !.enc = enc])
               /\ UNCHANGED <<waiters, isClosed, statusLog, sendVars, imageData,
                              framePresentPending, frames, decoded, midUpdate,
                              updatesApplied>>
          [] enc = RFB_ENCODING_ZLIB ->
               /\ Goto("zlen", [loc EXCEPT !.enc = enc])
               /\ UNCHANGED <<waiters, isClosed, statusLog, sendVars, imageData,
                              framePresentPending, frames, decoded, midUpdate,
                              updatesApplied>>
          [] OTHER ->
               /\ Stops("Unsupported encoding")
               /\ UNCHANGED <<sendVars, imageData, framePresentPending, frames,
                              decoded,
                              midUpdate, updatesApplied>>
  /\ UNCHANGED <<net, blobReads, arrived, fbWidth, fbHeight, pf, zlibStream,
                 zlibTarget,
                 zlibTargetOff, presentLog>>
  /\ UNCHANGED input

ReadRawData ==
  /\ Returns("raw")
  /\ LET b == blitRaw(imageData, pf, fbWidth, loc.x, loc.y, loc.w, loc.h,
                      Bytes, bytesPerPixel(pf))
     IN IF b.error # ""
          THEN /\ Stops(b.error)
               /\ UNCHANGED <<sendVars, imageData, framePresentPending, frames,
                              decoded,
                              midUpdate, updatesApplied>>
          ELSE /\ AfterRect(b.img, Append(decoded, Rect(Bytes)), TRUE)
               /\ UNCHANGED <<waiters, isClosed, statusLog>>
  /\ UNCHANGED <<net, blobReads, arrived, fbWidth, fbHeight, pf, zlibStream,
                 zlibTarget,
                 zlibTargetOff, presentLog>>
  /\ UNCHANGED input

ReadZlibLength ==
  /\ Returns("zlen")
  /\ IF expectedLen = 0 /\ getUint32(Bytes) = 0
       THEN AfterRect(imageData, decoded, FALSE)
       ELSE /\ Goto("zdata", [loc EXCEPT !.len = getUint32(Bytes)])
            /\ UNCHANGED <<sendVars, imageData, framePresentPending, frames,
                           decoded,
                           midUpdate, updatesApplied>>
  /\ UNCHANGED <<waiters, isClosed, net, blobReads, arrived, statusLog,
                 fbWidth, fbHeight,
                 pf, zlibStream, zlibTarget, zlibTargetOff, presentLog>>
  /\ UNCHANGED input

\* The ZLib branch of the rectangle loop, once the compressed bytes are read,
\* with the size check left out: whatever was inflated is blitted.
zlibRect_blitsBeforeCheck(img, f, fbW, stream, rect, zdata) ==
  LET bpp == bytesPerPixel(f)
      r == inflateZlibRect(stream, zdata, rect.w * rect.h * bpp)
      b == blitRaw(img, f, fbW, rect.x, rect.y, rect.w, rect.h, r.out, bpp)
  IN [img |-> b.img, z |-> r,
      error |-> IF r.error # "" THEN r.error ELSE b.error]

\* The ZLib branch of the rectangle loop, once the compressed bytes are read:
\* inflateZlibRect, then blitRaw of what it returned.
zlibRect(img, f, fbW, stream, rect, zdata) ==
  LET bpp == bytesPerPixel(f)
      r == inflateZlibRect(stream, zdata, rect.w * rect.h * bpp)
      b == blitRaw(img, f, fbW, rect.x, rect.y, rect.w, rect.h, r.out, bpp)
  IN IF r.error # "" THEN [img |-> img, z |-> r, error |-> r.error]
     ELSE [img |-> b.img, z |-> r, error |-> b.error]

ReadZlibData ==
  /\ Returns("zdata")
  /\ LET d == zlibRect(imageData, pf, fbWidth, zlibStream, Rect(<<>>), Bytes)
     IN /\ zlibStream' = d.z.zlibStream
        /\ zlibTarget' = d.z.zlibTarget
        /\ zlibTargetOff' = d.z.zlibTargetOff
        /\ IF d.error # ""
             THEN /\ Stops(d.error)
                  /\ imageData' = d.img
                  /\ UNCHANGED <<sendVars, framePresentPending, frames, decoded,
                                 midUpdate, updatesApplied>>
             ELSE /\ AfterRect(d.img, Append(decoded, Rect(d.z.out)), TRUE)
                  /\ UNCHANGED <<waiters, isClosed, statusLog>>
  /\ UNCHANGED <<net, blobReads, arrived, fbWidth, fbHeight, pf, presentLog>>
  /\ UNCHANGED input

\* readServerCutText; in the variant the padding is not read.
ReadCutPadding_notRead ==
  /\ pc = "cutPadding" /\ rstate = "run"
  /\ Goto("cutLen", loc)
  /\ UNCHANGED <<chunks, head, headOffset, buffered, consumed, lastRead>>
  /\ UNCHANGED <<waiters, isClosed, net, blobReads, arrived, statusLog,
                 sendVars, fbState>>
  /\ UNCHANGED input

ReadCutPadding ==
  /\ Returns("cutPadding")
  /\ Goto("cutLen", loc)
  /\ UNCHANGED <<waiters, isClosed, net, blobReads, arrived, statusLog,
                 sendVars, fbState>>
  /\ UNCHANGED input

ReadCutLength ==
  /\ Returns("cutLen")
  /\ Goto("cutText", [loc EXCEPT !.len = getUint32(Bytes)])
  /\ UNCHANGED <<waiters, isClosed, net, blobReads, arrived, statusLog,
                 sendVars, fbState>>
  /\ UNCHANGED input

ReadCutText ==
  /\ Returns("cutText")
  /\ Goto("msgType", loc)
  /\ UNCHANGED <<waiters, isClosed, net, blobReads, arrived, statusLog,
                 sendVars, fbState>>
  /\ UNCHANGED input

\* The pending readExactly of the client throws "connection closed".
ReadFails ==
  /\ pc \notin {"new", "read", "idle", "failed", "stopped"}
  /\ rstate = "run"
  /\ isClosed /\ buffered < Need
  /\ lastRead' = [n |-> Need, out |-> <<>>, error |-> "connection closed"]
  /\ Throws("connection closed")
  /\ UNCHANGED <<chunks, head, headOffset, buffered, net, blobReads, arrived,
                 consumed,
                 sendVars, fbState>>
  /\ UNCHANGED input

\* The animation-frame callback of presentFrameSoon.
Present ==
  /\ NoMicrotask
  /\ frames > 0
  /\ frames' = frames - 1
  /\ framePresentPending' = FALSE
  /\ presentLog' =
       IF imageData = NULL THEN presentLog
       ELSE Append(presentLog, [data |-> imageData[1], partial |-> midUpdate,
                                applied |-> updatesApplied])
  /\ UNCHANGED <<queueVars, readVars, sendVars, fbWidth, fbHeight, pf,
                 imageData, zlibStream, zlibTarget, zlibTargetOff, trail,
                 decoded, midUpdate, updatesApplied>>
  /\ UNCHANGED input

\* The transport delivers the next bytes of the server as one message.
Receive ==
  /\ NoMicrotask
  /\ readyState = "open"
  /\ net # <<>>
  /\ \E len \in SegmentLens : OnMessage(Min(len, Len(net)))
  /\ UNCHANGED <<pc, loc, consumed, lastRead, statusLog, sendVars, fbVars>>
  /\ UNCHANGED input

\* ------------------------------------------------------------------ input
\* The fields of the input handlers, with document.pointerLockElement (locked)
\* and the scale of the displayed content (sx = fbWidth / r.width, which is
\* also sy: contentRect keeps the aspect ratio of the framebuffer). The
\* fields seed, sum, hit and early record, for each axis, the cursor when
\* the lock was entered, the sum of the scaled deltas since, and whether the
\* latest (hit) or an earlier (early) update was cut by the clamp.
\* The keyboard fields are pendingCommandChars, ctrlDown and ctrlSynth;
\* commands counts the calls of onCommand, keyEvents the keyboard events
\* dispatched, and heldKeys holds the keys of the key-downs not yet followed
\* by their key-up, and lastKey is the last keyboard event dispatched.
\* The scale is the fraction sx / den, and plX, plY are held in units of
\* 1 / den (they are fractional in the program when the scale is). touchId
\* is the tracked touch; touchesDown holds the identifiers of the fingers on
\* the canvas, lastTouch is the last touch event dispatched, and absSeen
\* tells whether sendPointerForEvent or a touch handler has recorded an
\* absolute position. attached tells whether attachInput has run.
NoInput ==
  [plX |-> 0, plY |-> 0, lastAbsX |-> 0, lastAbsY |-> 0, locked |-> FALSE,
   sx |-> 1, den |-> 1, events |-> 0,
   touchId |-> <<>>, touchesDown |-> {}, absSeen |-> FALSE,
   lastTouch |-> [type |-> "none", at |-> 0, touches |-> <<>>,
                  changedTouches |-> <<>>],
   seed |-> <<0, 0>>, sum |-> <<0, 0>>,
   hit |-> <<FALSE, FALSE>>, early |-> <<FALSE, FALSE>>,
   pendingCommandChars |-> 0, ctrlDown |-> FALSE, ctrlSynth |-> FALSE,
   commands |-> 0, keyEvents |-> 0, heldKeys |-> {},
   lastKey |-> [type |-> "none", key |-> "", repeat |-> FALSE,
                ctrlKey |-> FALSE, metaKey |-> FALSE, length |-> 0],
   attached |-> FALSE]

\* The input record once attachInput has added the listeners.
Attached == [NoInput EXCEPT !.attached = TRUE]

\* An input event reaches its handler only once attachInput has run; in the
\* variant the listeners are there from the construction of the client.
Listening_fromConstruction == TRUE
Listening == input.attached

\* Math.max(0, Math.min(size - 1, v)), and a variant that does not clamp.
clampCoord_unclamped(v, size) == v
clampCoord(v, size) == Max(0, Min(size - 1, v))

sendPointerEvent(s, mask, x, y) ==
  send(s, Msg(<<5, mask % 256>> \o writeU16(x) \o writeU16(y)))

\* The mouse events of the model: the position over the canvas, whose content
\* starts at the origin of the viewport, and the relative motion; no button
\* is down.
MaxMoves == 4
MouseEvents ==
  {[clientX |-> 10, clientY |-> 5, movementX |-> d[1], movementY |-> d[2]] :
     d \in {<<5, 0>>, <<-20, 0>>, <<1, 50>>}}

\* pointerPos and touchPos, for one axis: the content starts at the origin
\* of the viewport, so the coordinate is floor(client * scale), clamped; the
\* variant leaves the clamp out.
pointerPos_unclamped(client, size) == (client * input.sx) \div input.den
pointerPos(client, size) ==
  clampCoord((client * input.sx) \div input.den, size)

\* Math.floor of a virtual cursor coordinate.
floorCursor(v) == v \div input.den

\* The clamp of a virtual cursor coordinate, in units of 1 / den.
clampCursor(v, size) == clampCoord(v, (size - 1) * input.den + 1)

\* onMouseMove
onMouseMove(ev) ==
  IF input.locked
    THEN LET rawX == input.plX + ev.movementX * input.sx
             rawY == input.plY + ev.movementY * input.sx
             x == clampCursor(rawX, fbWidth)
             y == clampCursor(rawY, fbHeight)
         IN /\ input' =
                 [input EXCEPT
                    !.plX = x, !.plY = y, !.events = @ + 1,
                    !.sum = <<@[1] + ev.movementX * input.sx,
                              @[2] + ev.movementY * input.sx>>,
                    !.early = <<@[1] \/ input.hit[1],
                                @[2] \/ input.hit[2]>>,
                    !.hit =
                      <<rawX < 0 \/ rawX > (fbWidth - 1) * input.den,
                        rawY < 0 \/ rawY > (fbHeight - 1) * input.den>>]
            /\ Commit(sendPointerEvent(Tx, 0, floorCursor(x),
                                       floorCursor(y)))
    ELSE LET x == pointerPos(ev.clientX, fbWidth)
             y == pointerPos(ev.clientY, fbHeight)
         IN /\ input' = [input EXCEPT !.lastAbsX = x, !.lastAbsY = y,
                                      !.absSeen = TRUE,
                                      !.events = @ + 1]
            /\ Commit(sendPointerEvent(Tx, 0, x, y))

MouseMove ==
  /\ NoMicrotask
  /\ Listening
  /\ input.events < MaxMoves
  /\ \E ev \in MouseEvents : onMouseMove(ev)
  /\ UNCHANGED <<readyState, lowEvents, queueVars, readVars, fbVars>>

\* onPointerLockChange, when the lock is taken by the canvas or released.
PointerLockChange ==
  /\ NoMicrotask
  /\ Listening
  /\ IF input.locked
       THEN input' = [input EXCEPT !.locked = FALSE]
       ELSE LET x == IF input.lastAbsX # 0 THEN input.lastAbsX
                     ELSE fbWidth \div 2
                y == IF input.lastAbsY # 0 THEN input.lastAbsY
                     ELSE fbHeight \div 2
            IN input' = [input EXCEPT
                           !.locked = TRUE,
                           !.plX = x * input.den, !.plY = y * input.den,
                           !.seed = <<x * input.den, y * input.den>>,
                           !.sum = <<0, 0>>,
                           !.hit = <<FALSE, FALSE>>,
                           !.early = <<FALSE, FALSE>>]
  /\ UNCHANGED <<queueVars, readVars, sendVars, fbVars>>

\* The touch points of the model: fingers 0 and 1, each at the top left
\* corner of the content or beyond its bottom right corner.
TouchIds == {0, 1}
TouchPositions == {<<0, 1>>, <<9, 7>>}
Touch(id, p) == [identifier |-> id, clientX |-> p[1], clientY |-> p[2]]

\* The TouchLists that hold one Touch for each identifier of ids.
TouchLists(ids) ==
  { SelectSeq(<<Touch(0, f[0]), Touch(1, f[1])>>,
              LAMBDA t : t.identifier \in ids) :
      f \in [TouchIds -> TouchPositions] }

\* touchById; null is NULL. The variant returns the first touch of the list
\* whatever the identifier asked for.
touchById_first(list, id) ==
  IF Len(list) = 0 THEN NULL ELSE Some(list[1])
touchById(list, id) ==
  IF Len(list) = 0 THEN NULL
  ELSE IF id = NULL THEN Some(list[1])
  ELSE LET found == SelectSeq(list, LAMBDA t : t.identifier = id[1])
       IN IF found = <<>> THEN NULL ELSE Some(found[1])

\* The input record once a touch event has been dispatched.
Touched(type, touches, changedTouches) ==
  [input EXCEPT
     !.events = @ + 1,
     !.lastTouch = [type |-> type, at |-> input.events + 1,
                    touches |-> touches,
                    changedTouches |-> changedTouches]]

\* The handlers' common tail: record the position of the touch and send a
\* PointerEvent with the mask.
touchPointer(in, touch, mask) ==
  LET x == pointerPos(touch.clientX, fbWidth)
      y == pointerPos(touch.clientY, fbHeight)
  IN /\ input' = [in EXCEPT !.lastAbsX = x, !.lastAbsY = y,
                            !.absSeen = TRUE]
     /\ Commit(sendPointerEvent(Tx, mask, x, y))
     /\ UNCHANGED <<readyState, lowEvents>>

MaxGestures == 3

\* onTouchStart: a finger that was not on the canvas comes down.
TouchStart ==
  /\ NoMicrotask
  /\ Listening
  /\ input.events < MaxGestures
  /\ \E id \in TouchIds \ input.touchesDown :
       \E touches \in TouchLists(input.touchesDown \cup {id}) :
         LET changedTouches ==
               SelectSeq(touches, LAMBDA t : t.identifier = id)
             in0 == [Touched("touchstart", touches, changedTouches)
                       EXCEPT !.touchesDown = @ \cup {id}]
             first == IF changedTouches # <<>> THEN changedTouches[1]
                      ELSE touches[1]
             tid == IF input.touchId = NULL THEN Some(first.identifier)
                    ELSE input.touchId
             inTouches == touchById(touches, tid)
             touch == IF inTouches # NULL THEN inTouches
                      ELSE touchById(changedTouches, tid)
             in1 == [in0 EXCEPT !.touchId = tid]
         IN IF touches = <<>> /\ changedTouches = <<>>
              THEN input' = in0 /\ UNCHANGED sendVars
              ELSE IF touch = NULL
                THEN input' = in1 /\ UNCHANGED sendVars
                ELSE touchPointer(in1, touch[1], 1)
  /\ UNCHANGED <<queueVars, readVars, fbVars>>

\* onTouchMove: a finger on the canvas moves.
TouchMove ==
  /\ NoMicrotask
  /\ Listening
  /\ input.events < MaxGestures
  /\ \E id \in input.touchesDown :
       \E touches \in TouchLists(input.touchesDown) :
         LET changedTouches ==
               SelectSeq(touches, LAMBDA t : t.identifier = id)
             in0 == Touched("touchmove", touches, changedTouches)
             touch == touchById(touches, input.touchId)
         IN IF input.touchId = NULL \/ touch = NULL
              THEN input' = in0 /\ UNCHANGED sendVars
              ELSE touchPointer(in0, touch[1], 1)
  /\ UNCHANGED <<queueVars, readVars, fbVars>>

\* onTouchEnd, for touchend and touchcancel: a finger leaves the canvas.
TouchEnd ==
  /\ NoMicrotask
  /\ Listening
  /\ input.events < MaxGestures
  /\ \E id \in input.touchesDown :
       \E touches \in TouchLists(input.touchesDown \ {id}) :
         \E changedTouches \in TouchLists({id}) :
           LET in0 == [Touched("touchend", touches, changedTouches)
                         EXCEPT !.touchesDown = @ \ {id}]
               touch == touchById(changedTouches, input.touchId)
           IN IF input.touchId = NULL \/ touch = NULL
                THEN input' = in0 /\ UNCHANGED sendVars
                ELSE touchPointer([in0 EXCEPT !.touchId = NULL],
                                  touch[1], 0)
  /\ UNCHANGED <<queueVars, readVars, fbVars>>

\* The mouse and wheel events of the gesture specification: positions left
\* of the content, inside it and beyond its bottom right corner, relative
\* motions in every direction, and wheel turns both ways or none.
GestureEvents ==
  {[clientX |-> c[1], clientY |-> c[2], movementX |-> d[1],
    movementY |-> d[2], deltaY |-> w] :
     c \in {<<-1, 1>>, <<3, 0>>, <<9, 7>>},
     d \in {<<-9, 0>>, <<1, 1>>, <<3, 5>>},
     w \in {-1, 0, 1}}

\* onMouseMove, anywhere over the canvas.
MouseAt ==
  /\ NoMicrotask
  /\ Listening
  /\ input.events < MaxGestures
  /\ \E ev \in GestureEvents : ev.deltaY = 0 /\ onMouseMove(ev)
  /\ UNCHANGED <<readyState, lowEvents, queueVars, readVars, fbVars>>

\* onWheel
Wheel ==
  /\ NoMicrotask
  /\ Listening
  /\ input.events < MaxGestures
  /\ \E ev \in GestureEvents :
       LET in0 == [input EXCEPT !.events = @ + 1]
           mask == IF ev.deltaY < 0 THEN 8 ELSE 16
           x == IF input.locked THEN floorCursor(input.plX)
                ELSE pointerPos(ev.clientX, fbWidth)
           y == IF input.locked THEN floorCursor(input.plY)
                ELSE pointerPos(ev.clientY, fbHeight)
       IN /\ ev.movementX = 1
          /\ input' = in0
          /\ IF ev.deltaY = 0
               THEN UNCHANGED sendVars
               ELSE /\ Commit(sendPointerEvent(
                          sendPointerEvent(Tx, mask, x, y), 0, x, y))
                    /\ UNCHANGED <<readyState, lowEvents>>
  /\ UNCHANGED <<queueVars, readVars, fbVars>>

\* The VNC keysyms of the client.
KEYSYM ==
  [BackSpace |-> 65288, Tab |-> 65289, Enter |-> 65293, Escape |-> 65307,
   Insert |-> 65379, Delete |-> 65535, Home |-> 65360, End |-> 65367,
   PageUp |-> 65365, PageDown |-> 65366, ArrowLeft |-> 65361,
   ArrowUp |-> 65362, ArrowRight |-> 65363, ArrowDown |-> 65364,
   Shift |-> 65505, Control |-> 65507, Alt |-> 65513, Meta |-> 65511]

\* The keys of the model, each with ev.key, ev.code, ev.key.length and
\* ev.key.codePointAt(0).
Keys ==
  { [key |-> "a", code |-> "KeyA", length |-> 1, codePoint |-> 97],
    [key |-> "Enter", code |-> "Enter", length |-> 5, codePoint |-> 69],
    [key |-> "Backspace", code |-> "Backspace", length |-> 9,
     codePoint |-> 66],
    [key |-> "Escape", code |-> "Escape", length |-> 6, codePoint |-> 69],
    [key |-> "Control", code |-> "ControlLeft", length |-> 7,
     codePoint |-> 67],
    [key |-> "F1", code |-> "F1", length |-> 2, codePoint |-> 70] }

\* keysymFromEvent; null is NULL.
keysymFromEvent(ev) ==
  IF ev.code = "Backspace" THEN Some(KEYSYM.BackSpace)
  ELSE IF ev.length = 1 THEN Some(ev.codePoint)
  ELSE IF ev.key \in DOMAIN KEYSYM THEN Some(KEYSYM[ev.key])
  ELSE IF ev.key = "Esc" THEN Some(KEYSYM.Escape)
  ELSE IF ev.key = "Backspace" THEN Some(KEYSYM.BackSpace)
  ELSE NULL

\* The bytes of a KeyEvent message.
KeyEvent(down, keysym) ==
  <<4, IF down THEN 1 ELSE 0, 0, 0>> \o writeU32(keysym)

sendKeyEvent(s, down, keysym) == send(s, Msg(KeyEvent(down, keysym)))

\* The counter of typed characters after a key-down that is not ignored; in
\* the variant Backspace has no floor.
pendingAfter_noFloor(n, ev) ==
  IF ev.key = "Enter" THEN 0
  ELSE IF ev.key = "Backspace" THEN n - 1
  ELSE IF ev.key = "Escape" THEN 0
  ELSE IF ev.length = 1 /\ ~ev.ctrlKey /\ ~ev.metaKey THEN n + 1
  ELSE n
pendingAfter(n, ev) ==
  IF ev.key = "Enter" THEN 0
  ELSE IF ev.key = "Backspace" THEN Max(0, n - 1)
  ELSE IF ev.key = "Escape" THEN 0
  ELSE IF ev.length = 1 /\ ~ev.ctrlKey /\ ~ev.metaKey THEN n + 1
  ELSE n

\* The keyboard events: a key with the repeat flag and the modifiers. While
\* a Control key-down is unreleased the Ctrl modifier is set; the modifier
\* may also be set with no Control key-down seen (the key went down while
\* the window had no focus).
KeyboardEvents ==
  { [key |-> k.key, code |-> k.code, length |-> k.length,
     codePoint |-> k.codePoint, repeat |-> r, ctrlKey |-> c, metaKey |-> m] :
      k \in Keys, r \in BOOLEAN, c \in BOOLEAN, m \in BOOLEAN }

\* onKeyDown
KeyDown ==
  /\ NoMicrotask
  /\ Listening
  /\ input.keyEvents < MaxKeys
  /\ \E ev \in KeyboardEvents :
       /\ ev.metaKey => (ev.length = 1 /\ ~ev.ctrlKey /\ ~ev.repeat)
       /\ ("Control" \in input.heldKeys \/ ev.key = "Control") => ev.ctrlKey
       /\ LET in0 == [input EXCEPT
                        !.keyEvents = @ + 1,
                        !.heldKeys = @ \cup {ev.key},
                        !.lastKey = [type |-> "keydown", key |-> ev.key,
                                     repeat |-> ev.repeat,
                                     ctrlKey |-> ev.ctrlKey,
                                     metaKey |-> ev.metaKey,
                                     length |-> ev.length]]
              keysym == keysymFromEvent(ev)
          IN IF ev.repeat /\ ev.key # "Backspace"
               THEN input' = in0 /\ UNCHANGED sendVars
               ELSE LET in1 ==
                          [in0 EXCEPT
                             !.commands =
                               IF ev.key = "Enter"
                                  /\ input.pendingCommandChars > 0
                                 THEN @ + 1 ELSE @,
                             !.pendingCommandChars = pendingAfter(@, ev)]
                    IN IF keysym = NULL
                         THEN input' = in1 /\ UNCHANGED sendVars
                         ELSE IF keysym[1] = KEYSYM.Control
                           THEN /\ input' = [in1 EXCEPT !.ctrlDown = TRUE]
                                /\ Commit(sendKeyEvent(Tx, TRUE, keysym[1]))
                                /\ UNCHANGED <<readyState, lowEvents>>
                         ELSE IF ev.ctrlKey /\ ~input.ctrlDown
                           THEN /\ input' = [in1 EXCEPT !.ctrlSynth = TRUE]
                                /\ Commit(sendKeyEvent(
                                     sendKeyEvent(Tx, TRUE, KEYSYM.Control),
                                     TRUE, keysym[1]))
                                /\ UNCHANGED <<readyState, lowEvents>>
                         ELSE /\ input' = in1
                              /\ Commit(sendKeyEvent(Tx, TRUE, keysym[1]))
                              /\ UNCHANGED <<readyState, lowEvents>>
  /\ UNCHANGED <<queueVars, readVars, fbVars>>

\* onKeyUp's test for releasing the synthetic Control; in the variant the
\* negation of ctrlDown is dropped.
synthHeld_whileCtrlDown(in) == in.ctrlSynth /\ in.ctrlDown
synthHeld(in) == in.ctrlSynth /\ ~in.ctrlDown

\* onKeyUp
KeyUp ==
  /\ NoMicrotask
  /\ Listening
  /\ input.keyEvents < MaxKeys
  /\ \E ev \in KeyboardEvents :
       /\ ~ev.repeat /\ ~ev.metaKey
       /\ ("Control" \in input.heldKeys /\ ev.key # "Control") => ev.ctrlKey
       /\ ev.key = "Control" => ~ev.ctrlKey
       /\ LET in0 == [input EXCEPT
                        !.keyEvents = @ + 1,
                        !.heldKeys = @ \ {ev.key},
                        !.lastKey = [type |-> "keyup", key |-> ev.key,
                                     repeat |-> ev.repeat,
                                     ctrlKey |-> ev.ctrlKey,
                                     metaKey |-> ev.metaKey,
                                     length |-> ev.length]]
              keysym == keysymFromEvent(ev)
          IN IF keysym = NULL
               THEN input' = in0 /\ UNCHANGED sendVars
               ELSE LET s1 == sendKeyEvent(Tx, FALSE, keysym[1])
                    IN /\ UNCHANGED <<readyState, lowEvents>>
                       /\ IF keysym[1] = KEYSYM.Control
                            THEN /\ input' = [in0 EXCEPT !.ctrlDown = FALSE]
                                 /\ Commit(s1)
                            ELSE IF synthHeld(input)
                              THEN /\ input' =
                                        [in0 EXCEPT !.ctrlSynth = FALSE]
                                   /\ Commit(sendKeyEvent(s1, FALSE,
                                                          KEYSYM.Control))
                            ELSE input' = in0 /\ Commit(s1)
  /\ UNCHANGED <<queueVars, readVars, fbVars>>

\* ------------------------------------------------------------------ specs
InputFresh == input = NoInput

QueueFresh ==
  /\ chunks = <<>>
  /\ head = 0
  /\ headOffset = 0
  /\ buffered = 0
  /\ waiters = 0
  /\ isClosed = FALSE

SendFresh ==
  /\ sendQueue = <<>>
  /\ sendQueueHead = 0
  /\ readyState = "open"
  /\ bufferedAmount = 0
  /\ lowEvents = 0
  /\ sendLog = <<>>
  /\ wire = <<>>
  /\ held = FALSE
  /\ compactions = 0
  /\ refused = FALSE

FbFresh ==
  /\ fbWidth = 0
  /\ fbHeight = 0
  /\ pf = NULL
  /\ imageData = NULL
  /\ framePresentPending = FALSE /\ frames = 0
  /\ zlibStream = NULL
  /\ zlibTarget = NULL
  /\ zlibTargetOff = 0
  /\ trail = <<>>
  /\ decoded = <<>>
  /\ midUpdate = FALSE
  /\ updatesApplied = 0
  /\ presentLog = <<>>

NoHistory ==
  /\ arrived = <<>>
  /\ consumed = <<>>
  /\ lastRead = [n |-> 0, out |-> <<>>, error |-> ""]
  /\ statusLog = <<>>

\* The client constructed and not started, its send() driven by callers.
SendInit ==
  /\ QueueFresh /\ SendFresh /\ FbFresh /\ NoHistory /\ InputFresh
  /\ pc = "new" /\ rstate = "idle"
  /\ loc = [n |-> 0]
  /\ blobReads = <<>>
  /\ net = <<>>

SendNext == ClientSend \/ Drain \/ BufferedAmountLow \/ TransportClose

SendSpec == SendInit /\ [][SendNext]_vars

\* The send path on a transport that stays open: the network keeps taking
\* bytes off the transport's buffer, and a queued bufferedamountlow event is
\* dispatched.
SendSome == ClientSend /\ Len(sendLog') <= BurstLen + MaxLiveSends

OpenNext == SendSome \/ Drain \/ BufferedAmountLow

OpenSpec ==
  SendInit /\ [][OpenNext]_vars /\ WF_vars(Drain) /\ WF_vars(BufferedAmountLow)

\* The ByteQueue of a client, read by a caller that asks for any lengths;
\* the server's bytes are numbered so that any two near ones differ.
QueueInit ==
  /\ QueueFresh /\ SendFresh /\ FbFresh /\ NoHistory /\ InputFresh
  /\ pc = "idle" /\ rstate = "idle"
  /\ loc = [n |-> 0]
  /\ blobReads = <<>>
  /\ net = [i \in 1..(ChunkBurst + 3 * MaxChunks) |-> i % 256]

QueueNext ==
  \/ Deliver \/ DeliverRun \/ TransportClose
  \/ CallRead \/ ReaderSuspend \/ ReadReturns \/ ReadThrows

QueueSpec == QueueInit /\ [][QueueNext]_vars

\* The Raw branch of the rectangle loop on its own: a client that is Ready,
\* with a framebuffer that is blank or holds a grey frame, decodes one
\* rectangle whose header and data have been read.
MaxSide == 2
FbSizes == {<<2, 1>>, <<3, 2>>}
RawPatterns == {<<1, 1>>, <<128, 37>>, <<255, 0>>}
RawOf(p, n) == [i \in 1..n |-> (p[1] + (i - 1) * p[2]) % 256]
BlitFormats ==
  { preferredPixelFormat,
    PixelFormat(32, 24, 0, 1, 255, 255, 255, 0, 8, 16),
    PixelFormat(32, 24, 1, 1, 255, 255, 255, 16, 8, 0),
    serverPixelFormat }

BlitInit ==
  /\ QueueFresh /\ SendFresh /\ NoHistory /\ InputFresh
  /\ \E size \in FbSizes, grey \in {0, 9} :
       /\ fbWidth = size[1] /\ fbHeight = size[2]
       /\ imageData = Some([k \in 1..(size[1] * size[2] * 4) |->
                              IF grey = 0 THEN 0
                              ELSE IF k % 4 = 0 THEN 255 ELSE grey])
  /\ pf \in {Some(f) : f \in BlitFormats}
  /\ framePresentPending = FALSE /\ frames = 0
  /\ zlibStream = NULL /\ zlibTarget = NULL /\ zlibTargetOff = 0
  /\ trail = <<"AwaitVersion", "AwaitSecurityTypes", "AwaitSecurityResult",
               "AwaitServerInit", "Ready">>
  /\ decoded = <<>> /\ midUpdate = FALSE /\ updatesApplied = 0
  /\ presentLog = <<>>
  /\ pc = "blit" /\ rstate = "idle"
  /\ loc = NoLocals
  /\ blobReads = <<>>
  /\ net = <<>>

BlitRect ==
  /\ pc = "blit"
  /\ \E x \in 0..MaxSide, y \in 0..MaxSide, w \in 0..MaxSide, h \in 0..MaxSide,
        p \in RawPatterns :
       LET bpp == bytesPerPixel(pf)
           raw == RawOf(p, w * h * bpp)
           b == blitRaw(imageData, pf, fbWidth, x, y, w, h, raw, bpp)
       IN /\ imageData' = b.img
          /\ decoded' = <<[x |-> x, y |-> y, w |-> w, h |-> h, raw |-> raw]>>
  /\ pc' = "blitted"
  /\ UNCHANGED <<queueVars, rstate, loc, net, blobReads, arrived, consumed,
                 lastRead,
                 statusLog, sendVars, fbWidth, fbHeight, pf,
                 framePresentPending, frames, zlibStream, zlibTarget,
                 zlibTargetOff,
                 trail, midUpdate, updatesApplied, presentLog>>
  /\ UNCHANGED input

BlitNext == BlitRect

BlitSpec == BlitInit /\ [][BlitNext]_vars

\* The two encoders on their own: a client with any pixel format and any
\* update rectangle sends SetPixelFormat and a FramebufferUpdateRequest, and
\* the 16 format bytes it wrote are read back by its own readPixelFormat.
CodecInit ==
  /\ QueueFresh /\ SendFresh /\ NoHistory /\ InputFresh
  /\ fbWidth = 0 /\ fbHeight = 0 /\ imageData = NULL
  /\ pf \in {Some(PixelFormat(bpp, depth, be, tc, rMax, gMax, bMax, rs, gs, bs)) :
               bpp \in {8, 32}, depth \in {255}, be \in {0, 1},
               tc \in {0, 1}, rMax \in {0, 255, 256, 65535}, gMax \in {63,
               65535},
               bMax \in {31, 258}, rs \in {0, 16}, gs \in {8, 255},
               bs \in {24}}
  /\ framePresentPending = FALSE /\ frames = 0
  /\ zlibStream = NULL /\ zlibTarget = NULL /\ zlibTargetOff = 0
  /\ trail = <<>>
  /\ decoded = <<>> /\ midUpdate = FALSE /\ updatesApplied = 0
  /\ presentLog = <<>>
  /\ pc = "encode" /\ rstate = "idle"
  /\ loc \in [incremental : BOOLEAN, x : {0, 65535}, y : {1, 256},
               w : {255, 65535}, h : {0, 258}, pixelFormat : {NULL}]
  /\ blobReads = <<>>
  /\ net = <<>>

EncodeSend ==
  /\ pc = "encode"
  /\ Commit(sendFramebufferUpdateRequest(sendSetPixelFormat(Tx, pf[1]),
                                         loc.incremental, loc.x, loc.y, loc.w,
                                         loc.h))
  /\ pc' = "sent"
  /\ UNCHANGED <<readyState, lowEvents, queueVars, rstate, loc, net, blobReads,
                 arrived,
                 consumed, lastRead, statusLog, fbVars>>
  /\ UNCHANGED input

ReadBack ==
  /\ pc = "sent"
  /\ loc' = [loc EXCEPT !.pixelFormat =
                          Some(readPixelFormat(SubSeq(wire[1].bytes, 5, 20)))]
  /\ pc' = "decoded"
  /\ UNCHANGED <<queueVars, rstate, net, blobReads, arrived, consumed, lastRead,
                 statusLog, sendVars, fbVars>>
  /\ UNCHANGED input

CodecNext == EncodeSend \/ ReadBack

CodecSpec == CodecInit /\ [][CodecNext]_vars

\* The state when the open handler of the data channel has run: it makes the
\* client and calls start(), which reports connecting and runs as far as the
\* first read of the handshake.
ConnInit ==
  /\ QueueFresh /\ SendFresh /\ InputFresh
  /\ fbWidth = 0 /\ fbHeight = 0
  /\ pf = NULL /\ imageData = NULL
  /\ framePresentPending = FALSE /\ frames = 0
  /\ zlibStream = NULL /\ zlibTarget = NULL /\ zlibTargetOff = 0
  /\ decoded = <<>> /\ midUpdate = FALSE /\ updatesApplied = 0
  /\ presentLog = <<>>
  /\ arrived = <<>> /\ consumed = <<>>
  /\ lastRead = [n |-> 0, out |-> <<>>, error |-> ""]
  /\ statusLog = <<[state |-> "connecting"]>>
  /\ trail = <<"AwaitVersion">>
  /\ pc = "version" /\ rstate = "run"
  /\ loc = NoLocals
  /\ blobReads = <<>>
  /\ net \in Scripts

ConnNext ==
  \/ Receive \/ TransportClose \/ Present
  \/ ReaderSuspend \/ ReadFails
  \/ ReadVersion \/ ReadSecurityCount \/ ReadReasonLength \/ ReadReason
  \/ ReadSecurityTypes \/ ReadSecurityResult
  \/ ReadWidth \/ ReadHeight \/ ReadPixelFormat \/ ReadNameLength \/ ReadName
  \/ ReadMessageType \/ ReadPadding \/ ReadRectCount
  \/ ReadRectX \/ ReadRectY \/ ReadRectW \/ ReadRectH \/ ReadRectEncoding
  \/ ReadRawData \/ ReadZlibLength \/ ReadZlibData
  \/ ReadCutPadding \/ ReadCutLength \/ ReadCutText

ConnSpec == ConnInit /\ [][ConnNext]_vars

\* The client in a browser that runs queued promise continuations and
\* requested animation-frame callbacks. A step of the reader is enabled
\* exactly when rstate = "run", and the reader takes finitely many steps on
\* a finite server stream, so weak fairness of the reader's steps is that
\* rstate is again and again not "run".
MicrotasksRun == []<>(rstate # "run")

FrameSpec ==
  ConnInit /\ [][ConnNext]_vars /\ MicrotasksRun /\ WF_vars(Present)

\* The connecting client with a user who presses the key a and moves the
\* mouse at any time from the construction of the client on.
FirstKey ==
  /\ KeyDown
  /\ input.keyEvents = 0
  /\ input'.lastKey.key = "a"
  /\ ~input'.lastKey.repeat
  /\ ~input'.lastKey.ctrlKey
  /\ ~input'.lastKey.metaKey
FirstMove == MouseMove /\ input.events = 0

AttachNext ==
  \/ Receive \/ TransportClose \/ ReaderSuspend \/ ReadFails
  \/ ReadVersion \/ ReadSecurityCount \/ ReadReasonLength \/ ReadReason
  \/ ReadSecurityTypes \/ ReadSecurityResult
  \/ ReadWidth \/ ReadHeight \/ ReadPixelFormat \/ ReadNameLength \/ ReadName
  \/ ReadMessageType
  \/ FirstKey \/ FirstMove

\* The server sends one of the shorter streams: those that make the
\* handshake fail, and the one that completes it and goes on with a message
\* of an unknown type.
AttachInit ==
  /\ ConnInit
  /\ Len(net) <= Len(Hello(56)) + 11

AttachSpec == AttachInit /\ [][AttachNext]_vars

\* A client that is Ready on a framebuffer fw wide and fh high: the handshake
\* has been sent and has left the transport, the reader is parked for the
\* next message type, and the input handlers are attached. ReadyClient is
\* one on a framebuffer 80 wide and 60 high, shown at its own size or at half
\* of it.
ReadyOn(fw, fh, script) ==
  /\ chunks = <<>> /\ head = 0 /\ headOffset = 0 /\ buffered = 0
  /\ waiters = 1 /\ isClosed = FALSE
  /\ pc = "msgType" /\ rstate = "wait"
  /\ arrived = Banner(56) \o SecurityTypes(<<1>>) \o SecurityResult(0)
                \o ServerInit(fw, fh, serverPixelFormat, <<120>>)
  /\ consumed = arrived
  /\ blobReads = <<>>
  /\ net = script
  /\ lastRead = [n |-> 1, out |-> <<120>>, error |-> ""]
  /\ loc = [NoLocals EXCEPT !.nSec = 1, !.len = 1, !.width = fw,
                            !.height = fh,
                            !.pixelFormat = Some(serverPixelFormat)]
  /\ statusLog =
       <<[state |-> "connecting"],
         [state |-> "connected", width |-> fw, height |-> fh,
          name |-> <<120>>],
         [state |-> "connected", width |-> fw, height |-> fh, name |-> <<>>]>>
  /\ sendQueue = <<>> /\ sendQueueHead = 0 /\ readyState = "open"
  /\ bufferedAmount = 0 /\ lowEvents = 0 /\ held = FALSE
  /\ compactions = 0 /\ refused = FALSE
  /\ sendLog = <<Msg(RFB_VERSION_38), Msg(<<1>>), Msg(<<1>>),
                 Msg(SetPixelFormat(preferredPixelFormat)),
                 Msg(SetEncodings(<<RFB_ENCODING_ZLIB, RFB_ENCODING_RAW>>)),
                 Msg(FramebufferUpdateRequest(FALSE, 0, 0, fw, fh))>>
  /\ wire = sendLog
  /\ fbWidth = fw /\ fbHeight = fh
  /\ pf = Some(preferredPixelFormat)
  /\ imageData = Some([k \in 1..(fw * fh * 4) |-> 0])
  /\ framePresentPending = FALSE /\ frames = 0
  /\ zlibStream = NULL /\ zlibTarget = NULL /\ zlibTargetOff = 0
  /\ trail = <<"AwaitVersion", "AwaitSecurityTypes", "AwaitSecurityResult",
               "AwaitServerInit", "Ready">>
  /\ decoded = <<>> /\ midUpdate = FALSE /\ updatesApplied = 0
  /\ presentLog = <<>>

ReadyClient(script) ==
  /\ ReadyOn(80, 60, script)
  /\ \E scale \in {1, 2} : input = [Attached EXCEPT !.sx = scale]

PointerInit == ReadyClient(<<>>)

PointerNext == MouseMove \/ PointerLockChange

PointerSpec == PointerInit /\ [][PointerNext]_vars

\* A Ready client on a framebuffer 4 wide and 3 high, shown at twice its
\* size or at two thirds of it, whose user moves the mouse, turns the wheel,
\* touches the canvas and takes or releases the pointer lock; a finger may
\* already be on the canvas when the handlers are attached.
GestureInit ==
  /\ ReadyOn(4, 3, <<>>)
  /\ \E scale \in {1, 3}, down \in {{}, {0}} :
       input = [Attached EXCEPT !.sx = scale, !.den = 2,
                               !.touchesDown = down]

GestureNext ==
  \/ MouseAt \/ Wheel \/ PointerLockChange
  \/ TouchStart \/ TouchMove \/ TouchEnd

GestureSpec == GestureInit /\ [][GestureNext]_vars

\* A Ready client on a framebuffer 4 wide and 3 high whose user types.
KeyInit == ReadyOn(4, 3, <<>>) /\ input = Attached

KeyNext == KeyDown \/ KeyUp

KeySpec == KeyInit /\ [][KeyNext]_vars

\* The same client with a server that goes on to send a message the receive
\* loop does not handle, and a user who keeps moving the mouse; the
\* transport may close at any time.
AbortInit == ReadyClient(<<9>>)

AbortNext ==
  \/ Receive \/ ReadMessageType \/ ReadFails \/ TransportClose
  \/ MouseMove \/ PointerLockChange

AbortSpec == AbortInit /\ [][AbortNext]_vars

\* A caller of readExactly on a client whose callers hand send() runs of
\* messages; the caller issues its reads while the transport is open.
CloseInit ==
  /\ QueueFresh /\ SendFresh /\ FbFresh /\ NoHistory /\ InputFresh
  /\ pc = "idle" /\ rstate = "idle"
  /\ loc = [n |-> 0]
  /\ blobReads = <<>>
  /\ net = <<1, 2, 3>>

SendRun == ClientSend /\ Len(sendLog') > Len(sendLog) + 1
CallReadOpen == CallRead /\ readyState = "open"

CloseNext ==
  \/ SendRun \/ Drain \/ BufferedAmountLow \/ TransportClose
  \/ Deliver
  \/ CallReadOpen \/ ReaderSuspend \/ ReadReturns \/ ReadThrows

CloseSpec == CloseInit /\ [][CloseNext]_vars

\* A caller of readExactly on a transport that delivers each binary message
\* as an ArrayBuffer or as a Blob; the server's bytes are 1, 2, 3, ...
BlobInit ==
  /\ QueueFresh /\ SendFresh /\ FbFresh /\ NoHistory /\ InputFresh
  /\ pc = "idle" /\ rstate = "idle"
  /\ loc = [n |-> 0]
  /\ blobReads = <<>>
  /\ net = [i \in 1..BlobStreamLen |-> i]

BlobNext ==
  \/ Deliver \/ ReceiveBlob \/ BlobResolves \/ TransportClose
  \/ CallReadOpen \/ ReaderSuspend \/ ReadReturns \/ ReadThrows

BlobSpec == BlobInit /\ [][BlobNext]_vars

\* ============================================================= properties
IsPrefix(a, b) == Len(a) <= Len(b) /\ SubSeq(b, 1, Len(a)) = a
Last(a) == a[Len(a)]

\* A step in which the pending readExactly of the caller returns or throws.
ReadDone == pc = "read" /\ pc' = "idle"

\* C2: readExactly(n) returns exactly the next n unread bytes, in arrival
\* order, and removes exactly those; or it throws "connection closed", only
\* when the queue is closed with fewer than n unread bytes, removing nothing.
\* The unread bytes are the arrived bytes not yet returned.
C2_ReadExactly ==
  /\ [](arrived = consumed \o Unread /\ buffered = Len(Unread))
  /\ [][ReadDone =>
          \/ /\ lastRead'.error = ""
             /\ Len(lastRead'.out) = loc.n
             /\ lastRead'.out = SubSeq(Unread, 1, loc.n)
             /\ Unread' = SubSeq(Unread, loc.n + 1, Len(Unread))
          \/ /\ lastRead'.error = "connection closed"
             /\ isClosed /\ Len(Unread) < loc.n
             /\ Unread' = Unread]_vars

\* C2 witness: a read of five bytes has returned bytes of several chunks and
\* stopped inside a chunk, on a queue that was already closed.
C2_Witness ==
  /\ pc = "idle"
  /\ lastRead.error = "" /\ lastRead.n = 5
  /\ headOffset > 0 /\ head > 0
  /\ isClosed
  /\ Unread # <<>>

\* C1: the messages passed to the transport's send are, in order, a prefix of
\* the messages accepted by send (nothing written twice, skipped or out of
\* order), and while the transport is open the rest is exactly the backlog.
C1_WireIsPrefixOfAccepted ==
  /\ IsPrefix(wire, sendLog)
  /\ readyState = "open" => sendLog = wire \o Backlog

\* C1 witness: the backlog has been compacted with a message still waiting
\* in it, and a later drain has written that message.
C1_Witness ==
  /\ compactions > 0
  /\ readyState = "open"
  /\ sendQueueHead > 0
  /\ Len(wire) > compactAfter

\* A step in which send() accepted exactly one message.
OneSendStep == Len(sendLog') = Len(sendLog) + 1

\* C9: while a message is held back by the high watermark and no
\* buffered-low notification has arrived, nothing reaches the transport; the
\* notification's drain writes a leading part of the backlog, in its order.
C9_HeldUntilBufferedLow ==
  [][/\ (held /\ held') => wire' = wire
     /\ (held /\ ~held') =>
          \E k \in 0..Len(Backlog) : wire' = wire \o SubSeq(Backlog, 1, k)]_vars

\* C9 witness: after a hold, a notification has drained backlog messages and
\* a new hold has begun with several messages waiting.
C9_Witness ==
  /\ readyState = "open"
  /\ held
  /\ sendQueueHead > 0
  /\ Len(Backlog) >= 2

\* C10 as stated: a send on an open transport is written at once exactly when
\* the backlog is empty and the gauge is at or below the LOW watermark, and
\* otherwise joins the backlog.
C10_Original ==
  [][OneSendStep =>
       IF Backlog = <<>> /\ bufferedAmount <= bufferedLow
         THEN wire' = Append(wire, Last(sendLog')) /\ Backlog' = <<>>
         ELSE wire' = wire /\ Backlog' = Append(Backlog, Last(sendLog'))]_vars

\* C10 amended: the send is written at once exactly when the backlog is empty
\* and the gauge is at or below the HIGH watermark; otherwise it joins the
\* backlog and is not written by that call.
C10_ImmediateUpToHighWatermark ==
  [][OneSendStep =>
       IF Backlog = <<>> /\ bufferedAmount <= bufferedHigh
         THEN wire' = Append(wire, Last(sendLog')) /\ Backlog' = <<>>
         ELSE wire' = wire /\ Backlog' = Append(Backlog, Last(sendLog'))]_vars

\* C10 witness: the last accepted message was written at once although the
\* gauge was above the low watermark before the write.
C10_Witness ==
  /\ readyState = "open"
  /\ sendLog # <<>>
  /\ wire = sendLog
  /\ bufferedAmount - Last(wire).byteLength > bufferedLow

\* The handshake states, in the order of the handshake.
HandshakeStates ==
  <<"AwaitVersion", "AwaitSecurityTypes", "AwaitSecurityResult",
    "AwaitServerInit", "Ready">>

\* The handshake has succeeded.
IsReady == trail # <<>> /\ Last(trail) = "Ready"

\* The bytes of the messages accepted by send, in order.
Sent == [k \in 1..Len(sendLog) |-> sendLog[k].bytes]

\* The first five client messages of a handshake, byte by byte.
HandshakeMessages ==
  << <<82, 70, 66, 32, 48, 48, 51, 46, 48, 48, 56, 10>>,
     <<1>>,
     <<1>>,
     <<0, 0, 0, 0, 32, 24, 0, 1, 0, 255, 0, 255, 0, 255, 16, 8, 0, 0, 0, 0>>,
     <<2, 0, 0, 2, 0, 0, 0, 6, 0, 0, 0, 0>> >>

\* The number of server bytes that end the version banner, the security
\* types, the security result and ServerInit, in the bytes read so far.
EndOfVersion == 12
EndOfSecurityTypes == EndOfVersion + 1 + consumed[EndOfVersion + 1]
EndOfSecurityResult == EndOfSecurityTypes + 4
EndOfServerInit ==
  EndOfSecurityResult + 24
  + getUint32(SubSeq(consumed, EndOfSecurityResult + 21,
                     EndOfSecurityResult + 24))

\* The width and height bytes of ServerInit, as the server sent them.
ServerSize == SubSeq(consumed, EndOfSecurityResult + 1, EndOfSecurityResult + 4)

\* The bytes of an update request for the whole framebuffer of ServerInit.
WholeFramebufferRequest(incremental) ==
  <<3, incremental, 0, 0, 0, 0>> \o ServerSize

\* C3: the handshake states are entered in the order AwaitVersion,
\* AwaitSecurityTypes, AwaitSecurityResult, AwaitServerInit, Ready, none
\* skipped or entered twice; the messages accepted by send up to Ready are
\* the version string "RFB 003.008\n", security type 1, shared flag 1,
\* SetPixelFormat, SetEncodings [6, 0] and a non-incremental update request
\* for the whole framebuffer, in this order; and each is accepted only when
\* the server data of its step has been read in full.
C3_HandshakeOrder ==
  /\ IsPrefix(trail, HandshakeStates)
  /\ IsPrefix(SubSeq(Sent, 1, Min(5, Len(Sent))), HandshakeMessages)
  /\ Len(Sent) >= 6 => Sent[6] = WholeFramebufferRequest(0)
  /\ IsReady <=> Len(Sent) >= 6
  /\ Len(Sent) >= 1 => Len(consumed) >= EndOfVersion
  /\ Len(Sent) >= 2 => Len(consumed) >= EndOfSecurityTypes
  /\ Len(Sent) >= 3 => Len(consumed) >= EndOfSecurityResult
  /\ Len(Sent) >= 4 => Len(consumed) >= EndOfServerInit
  /\ Len(trail) = 1 => Len(Sent) = 0
  /\ Len(trail) = 2 => Len(Sent) = 1
  /\ Len(trail) = 3 => Len(Sent) = 2
  /\ Len(trail) = 4 => Len(Sent) = 3

\* C3 witness: a handshake with a server that offered version 003.003 has
\* reached Ready and nothing has been sent since.
C3_Witness ==
  /\ trail = HandshakeStates
  /\ Len(Sent) = 6
  /\ SubSeq(consumed, 1, 12) = Banner(51)

\* An update request, by its bytes.
IsUpdateRequest(m) == m[1] = 3

\* The number of update requests among the first n messages accepted by send.
RECURSIVE UpdateRequests(_)
UpdateRequests(n) ==
  IF n = 0 THEN 0
  ELSE UpdateRequests(n - 1) + (IF IsUpdateRequest(Sent[n]) THEN 1 ELSE 0)

\* C4: once Ready, the update requests accepted by send number one more than
\* the updates applied in full; all but the first are incremental requests
\* for the whole framebuffer; and a step accepts an update request exactly
\* when it applies the last rectangle of an update (or ends the handshake).
C4_OneRequestPerUpdate ==
  /\ [](IF IsReady THEN UpdateRequests(Len(Sent)) = 1 + updatesApplied
                   ELSE UpdateRequests(Len(Sent)) = 0 /\ updatesApplied = 0)
  /\ [](\A k \in 7..Len(Sent) :
          IsUpdateRequest(Sent[k]) =>
            Sent[k] = WholeFramebufferRequest(1))
  /\ [][IsReady =>
          /\ updatesApplied' # updatesApplied <=> Len(Sent') # Len(Sent)
          /\ Len(Sent') # Len(Sent) =>
               /\ updatesApplied' = updatesApplied + 1
               /\ Len(Sent') = Len(Sent) + 1
               /\ Last(Sent') = WholeFramebufferRequest(1)]_vars

\* C4 witness: three updates have been applied in full, one of them with two
\* rectangles and one with none, and four update requests accepted.
C4_Witness ==
  /\ updatesApplied = 3
  /\ Len(decoded) = 3
  /\ UpdateRequests(Len(Sent)) = 4

\* C5 as stated: no presentation shows a pixel buffer in which some but not
\* all rectangles of an update are written.
C5_PresentsWholeUpdates ==
  \A k \in 1..Len(presentLog) : ~presentLog[k].partial

\* The pixel buffer after blitting the rectangles rs, in order, into buf.
RECURSIVE Replay(_, _)
Replay(buf, rs) ==
  IF rs = <<>> \/ Len(buf) < 0 THEN buf
  ELSE Replay(blitRaw32leBgrx(buf, fbWidth, Head(rs).x, Head(rs).y, Head(rs).w,
                              Head(rs).h, Head(rs).raw),
              Tail(rs))

\* The messages of the error statuses reported so far.
Errors ==
  {statusLog[k].error :
     k \in {j \in 1..Len(statusLog) : statusLog[j].state = "error"}}

\* C6: the pixel buffer holds exactly the rectangles decoded in full, in
\* order, on a buffer of zeros; so when a rectangle fails to decode (its
\* ZLib output too short or too long, or the stream closed before its bytes
\* had arrived) the buffer holds the rectangles decoded before it, and the
\* failing step itself leaves the buffer as it was.
C6_FailedRectUnblitted ==
  /\ [](imageData # NULL =>
          imageData[1] =
            Replay([k \in 1..(fbWidth * fbHeight * 4) |-> 0], decoded))
  /\ [][pc' = "stopped" => imageData' = imageData /\ decoded' = decoded]_vars

\* C6 witness: a ZLib rectangle one byte short has stopped the receive loop
\* after an earlier rectangle of the same update was blitted.
C6_Witness ==
  /\ pc = "stopped"
  /\ "Zlib rect size mismatch" \in Errors
  /\ Len(decoded) = 1
  /\ imageData[1] = <<3, 2, 1, 255, 0, 0, 0, 0>>

\* C7 as stated: when the handshake has failed, an error status has been
\* reported and the inbound queue is closed.
C7_HandshakeFailureCloses ==
  pc = "failed" =>
    /\ Errors # {}
    /\ isClosed

\* The step of the close listener.
Closes == readyState = "open" /\ readyState' = "closed"

\* C8: the close of the transport wakes a suspended readExactly, which then
\* throws "connection closed" and takes no bytes; the close empties the
\* backlog, and no message is passed to the transport at or after the close.
C8_CloseWakesReaderDropsBacklog ==
  /\ [][Closes /\ rstate = "wait" =>
          rstate' = "run" /\ isClosed' /\ waiters' = 0]_vars
  /\ [][pc = "read" /\ rstate = "run" /\ isClosed /\ buffered < loc.n =>
          /\ pc' = "idle"
          /\ lastRead' = [n |-> loc.n, out |-> <<>>,
                          error |-> "connection closed"]
          /\ Unread' = Unread]_vars
  /\ [][Closes => sendQueue' = <<>> /\ sendQueueHead' = 0]_vars
  /\ [][readyState' = "closed" => wire' = wire /\ Backlog' = <<>>]_vars

\* C8 witness: a read of five bytes, suspended with three bytes unread when
\* the transport closed on a backlog, has failed, and messages accepted by
\* send were never written.
C8_Witness ==
  /\ readyState = "closed"
  /\ lastRead.error = "connection closed" /\ lastRead.n = 5
  /\ buffered = 3
  /\ Len(wire) < Len(sendLog)
  /\ sendQueue = <<>>

\* The security types the server offered, in the bytes read so far.
OfferedTypes == SubSeq(consumed, EndOfVersion + 2, EndOfSecurityTypes)
OffersNone == \E k \in 1..Len(OfferedTypes) : OfferedTypes[k] = 1
NoNoneSecurity == "RFB: server does not support 'None' security"

\* C11: when the offered security types include 1 and the security result is
\* 0, the client has selected type 1 and the negotiation has succeeded (the
\* handshake waits for ServerInit or is past it); when the list is not empty
\* and lacks 1, the handshake fails with the error of a missing 'None'
\* security, the only message sent is the version reply, and no byte after
\* the list has been read.
C11_SecurityNegotiation ==
  /\ ( /\ Len(consumed) >= EndOfVersion + 1
       /\ Len(consumed) >= EndOfSecurityResult
       /\ OffersNone
       /\ getUint32(SubSeq(consumed, EndOfSecurityTypes + 1,
                           EndOfSecurityResult)) = 0 )
     => /\ Len(Sent) >= 2 /\ Sent[2] = <<1>>
        /\ Len(trail) >= 4
        /\ Errors \cap {NoNoneSecurity, "RFB security result",
                        "RFB security failed"} = {}
  /\ ( /\ Len(consumed) >= EndOfVersion + 1
       /\ consumed[EndOfVersion + 1] > 0
       /\ Len(consumed) >= EndOfSecurityTypes
       /\ ~OffersNone )
     => /\ pc = "failed"
        /\ Errors = {NoNoneSecurity}
        /\ Len(Sent) = 1
        /\ Len(consumed) = EndOfSecurityTypes
        /\ trail = <<"AwaitVersion", "AwaitSecurityTypes">>
  /\ NoNoneSecurity \in Errors
     => /\ Len(consumed) >= EndOfSecurityTypes
        /\ ~OffersNone

\* C11 witness: the server offered only type 2 and sent a security result
\* and ServerInit after it, all of which has arrived; the handshake failed.
C11_Witness ==
  /\ NoNoneSecurity \in Errors
  /\ OfferedTypes = <<2>>
  /\ net = <<>>
  /\ Len(arrived) > EndOfSecurityResult

\* C11 witness of the success: type 1 chosen from the list [1, 2].
C11_WitnessSelected ==
  /\ Len(Sent) = 3
  /\ OfferedTypes = <<1, 2>>
  /\ Len(trail) = 4

\* The width and the height of ServerInit, as numbers.
ServerWidth == getUint16(SubSeq(ServerSize, 1, 2))
ServerHeight == getUint16(SubSeq(ServerSize, 3, 4))

ServerFormat ==
  readPixelFormat(SubSeq(consumed, EndOfSecurityResult + 5,
                         EndOfSecurityResult + 20))

\* C13: once SetPixelFormat has been sent, the format used for decoding is
\* 32 bits per pixel, little-endian, truecolor, channel maxima 255 and shifts
\* 16, 8, 0, whatever ServerInit reported; no later step changes it; and the
\* data of every rectangle is sized with 4 bytes per pixel.
C13_PreferredFormat ==
  /\ [](Len(Sent) >= 4 =>
          /\ Sent[4][1] = 0
          /\ pf = Some([bitsPerPixel |-> 32, depth |-> 24, bigEndian |-> 0,
                        trueColor |-> 1, redMax |-> 255, greenMax |-> 255,
                        blueMax |-> 255, redShift |-> 16, greenShift |-> 8,
                        blueShift |-> 0])
          /\ bytesPerPixel(pf) = 4
          /\ pc = "raw" => Need = loc.w * loc.h * 4
          /\ pc = "zdata" => expectedLen = loc.w * loc.h * 4)
  /\ [][Len(Sent) >= 4 => pf' = pf]_vars

\* C13 witness: the server reported 16 bits per pixel, and the client waits
\* for the 8 bytes of a Raw rectangle of two pixels.
C13_Witness ==
  /\ IsReady
  /\ ServerFormat.bitsPerPixel = 16
  /\ pc = "raw" /\ loc.w * loc.h = 2
  /\ Need = 8

\* The bytes the server sends in the specification of the queue alone.
ServerStream == [i \in 1..(ChunkBurst + 3 * MaxChunks) |-> i % 256]

\* C14: the bytes returned by the k-th readExactly are those of the server's
\* byte sequence that follow the bytes returned before, whatever the lengths
\* of the chunks in which the sequence was pushed; so the results depend on
\* the byte sequence and on the sizes read, not on the split.
C14_SplitIndependent ==
  /\ [](IsPrefix(consumed, ServerStream))
  /\ [][(ReadDone /\ lastRead'.error = "") =>
          lastRead'.out =
            SubSeq(ServerStream, Len(consumed) + 1, Len(consumed) + loc.n)]_vars

\* C14 witness: a read of 5 bytes has returned bytes of three chunks, after
\* the chunk list was compacted, and stopped inside a chunk.
C14_Witness ==
  /\ lastRead.error = "" /\ lastRead.n = 5
  /\ Len(consumed) > chunksCompactAfter + 5
  /\ head < chunksCompactAfter
  /\ headOffset > 0

\* C15: a closed inbound queue stays closed; a message pushed after the
\* close leaves the queue as it is, unread bytes included, and wakes nobody;
\* and in every state, closed or not, with or without a parked reader, a
\* push of zero bytes leaves the queue as it is and wakes nobody.
C15_CloseIsTerminal ==
  /\ [](push(Q, <<>>) = Q /\ Woken(push(Q, <<>>)) = rstate)
  /\ [](isClosed => \A c \in {<<>>, <<1>>, <<1, 2, 3>>} : push(Q, c) = Q)
  /\ [][isClosed =>
          /\ isClosed'
          /\ net' # net =>
                /\ Unread' = Unread /\ arrived' = arrived
                /\ UNCHANGED <<queueVars, rstate, pc>>]_vars

\* C15 witness: the receive loop has closed the queue on a message of type
\* 9 while the transport stayed open, and bytes the server sent after it
\* were delivered and dropped.
C15_Witness ==
  /\ isClosed /\ readyState = "open"
  /\ consumed = Hello(56) \o <<9>>
  /\ net = <<>>
  /\ Len(arrived) < Len(consumed) + 10

\* C16: in a state whose transport is not open, send() of any message
\* returns with the transport's messages, the gauge, the backlog and the
\* accepted messages as they were (it only notes that it refused); the step
\* of the first such send changes none of them; and the backlog of a
\* transport that is not open is empty. The send returns: the transport's
\* own send, which throws on a transport that is not open, is not reached.
C16_SendWhenNotOpen ==
  /\ [](readyState # "open" =>
          /\ Backlog = <<>>
          /\ \A len \in MsgLens :
               send(Tx, Blob(<<0>>, len)) = [Tx EXCEPT !.ref = TRUE])
  /\ [](refused => readyState # "open")
  /\ [][refused' # refused =>
          /\ readyState # "open"
          /\ wire' = wire /\ bufferedAmount' = bufferedAmount
          /\ Backlog' = Backlog /\ sendQueue' = sendQueue
          /\ sendLog' = sendLog]_vars

\* C16 witness: a send was refused on a transport that closed with accepted
\* messages still in the backlog, which never reached the transport.
C16_Witness ==
  /\ refused
  /\ readyState = "closed"
  /\ wire # <<>>
  /\ Len(wire) < Len(sendLog)

\* The rectangle that was decoded on its own, and whether it lies inside the
\* framebuffer.
Blitted == decoded[1]
Inside(r) == r.x + r.w <= fbWidth /\ r.y + r.h <= fbHeight

\* C17: after a Raw rectangle (x,y,w,h) inside the framebuffer is decoded
\* under the preferred format, for every row < h and col < w the four buffer
\* bytes at offset ((y+row)*width + x+col)*4 are (R,G,B,255), where (B,G,R,X)
\* are the source bytes at index (row*w+col)*4 of the rectangle's data.
C17_RawBlit ==
  ( /\ pc = "blitted"
    /\ pf = Some([bitsPerPixel |-> 32, depth |-> 24, bigEndian |-> 0,
                  trueColor |-> 1, redMax |-> 255, greenMax |-> 255,
                  blueMax |-> 255, redShift |-> 16, greenShift |-> 8,
                  blueShift |-> 0])
    /\ Inside(Blitted) )
  => \A row \in 0..(Blitted.h - 1), col \in 0..(Blitted.w - 1) :
       LET off == ((Blitted.y + row) * fbWidth + Blitted.x + col) * 4
           src == (row * Blitted.w + col) * 4
       IN SubSeq(imageData[1], off + 1, off + 4) =
            <<Blitted.raw[src + 3], Blitted.raw[src + 2],
              Blitted.raw[src + 1], 255>>

\* C17 witness: a rectangle of 2 x 2 pixels at (1,0) of a framebuffer 3 wide
\* and 2 high was decoded under the preferred format, from bytes that differ.
C17_Witness ==
  /\ pc = "blitted"
  /\ isFastBgrx32(pf)
  /\ fbWidth = 3
  /\ Blitted.x = 1 /\ Blitted.y = 0 /\ Blitted.w = 2 /\ Blitted.h = 2
  /\ Blitted.raw[1] = 128 /\ Blitted.raw[2] = 165
  /\ SubSeq(imageData[1], 5, 8) = <<202, 165, 128, 255>>

\* C18: under each of the two formats that have a fast path, the buffer
\* after the decoding of a rectangle is the buffer that the generic
\* shift-and-mask path gives for the same buffer, rectangle, bytes and format.
C18_FastEqualsGeneric ==
  [][(pc = "blit" /\ pc' = "blitted"
      /\ (isFastBgrx32(pf) \/ isFastRgbx32(pf)))
     => imageData' =
          Some(blitRawGeneric(imageData[1], pf[1], fbWidth, Blitted'.x,
                              Blitted'.y, Blitted'.w, Blitted'.h, Blitted'.raw,
                              4))]_vars

\* C18 witness: under the format with red in the low byte, a rectangle whose
\* pixels have the top bit of every byte set was decoded on a grey frame.
C18_Witness ==
  /\ pc = "blitted"
  /\ isFastRgbx32(pf)
  /\ Blitted.w = 1 /\ Blitted.h = 2 /\ Blitted.x = 0 /\ Blitted.y = 0
  /\ Blitted.raw[4] = 239
  /\ fbWidth = 3
  /\ SubSeq(imageData[1], 1, 8) = <<128, 165, 202, 255, 9, 9, 9, 255>>

\* A FramebufferUpdateRequest decoded by its documented layout: the type 3,
\* the incremental flag, then x, y, w and h as big-endian 16-bit numbers.
DecodedRequest(b) ==
  [type |-> b[1], incremental |-> b[2] # 0,
   x |-> b[3] * 256 + b[4], y |-> b[5] * 256 + b[6],
   w |-> b[7] * 256 + b[8], h |-> b[9] * 256 + b[10]]

\* C19: the format that readPixelFormat returns for the 16 format bytes of a
\* SetPixelFormat message is the format that was encoded, field by field,
\* and the FramebufferUpdateRequest that was sent decodes by the documented
\* layout to the incremental flag, x, y, w and h it was made from; both
\* messages have their documented lengths and type bytes.
C19_RoundTrip ==
  /\ pc \in {"sent", "decoded"} =>
       /\ Len(wire) = 2
       /\ Len(wire[1].bytes) = 20
       /\ SubSeq(wire[1].bytes, 1, 4) = <<0, 0, 0, 0>>
       /\ Len(wire[2].bytes) = 10
       /\ DecodedRequest(wire[2].bytes) =
            [type |-> 3, incremental |-> loc.incremental, x |-> loc.x,
             y |-> loc.y, w |-> loc.w, h |-> loc.h]
  /\ pc = "decoded" => loc.pixelFormat = pf

\* C19 witness: a format with the maxima 256, 65535 and 258 and a request
\* with x = 65535 and h = 258 have been sent and the format read back.
C19_Witness ==
  /\ pc = "decoded"
  /\ loc.pixelFormat # NULL
  /\ loc.pixelFormat[1].redMax = 256
  /\ loc.pixelFormat[1].greenMax = 65535
  /\ loc.pixelFormat[1].blueMax = 258
  /\ loc.pixelFormat[1].greenShift = 255
  /\ loc.incremental /\ loc.x = 65535 /\ loc.h = 258

\* A coordinate brought into 0 .. size - 1.
Bounded(v, size) == IF v < 0 THEN 0 ELSE IF v > size - 1 THEN size - 1 ELSE v

\* The cursor that one event carrying the sum of the deltas since the lock
\* was entered would have produced.
MergedCursor ==
  <<Bounded(input.seed[1] + input.sum[1], fbWidth),
    Bounded(input.seed[2] + input.sum[2], fbHeight)>>

\* C20 as stated: in pointer lock the virtual cursor, updated and clamped
\* delta by delta, is where a single event with the summed deltas would
\* have put it, whatever the deltas.
C20_Original ==
  input.locked => <<input.plX, input.plY>> = MergedCursor

\* C20 amended: on each axis, the cursor updated delta by delta is where a
\* single event with the summed deltas would have put it, provided that no
\* update before the latest was cut by the clamp on that axis; and the
\* cursor is within the framebuffer after every update.
C20_MergeUnlessClampedEarlier ==
  input.locked =>
    /\ ~input.early[1] => input.plX = MergedCursor[1]
    /\ ~input.early[2] => input.plY = MergedCursor[2]
    /\ input.plX \in 0..(fbWidth - 1)
    /\ input.plY \in 0..(fbHeight - 1)

\* C20 witness: from the centre (40,30) of the framebuffer the deltas
\* (+5,0), (-20,0) and (+1,+50) have been applied one by one; the latest was
\* cut by the clamp on the y axis, and the cursor is at (26,59).
C20_Witness ==
  /\ input.locked
  /\ input.seed = <<40, 30>>
  /\ input.events = 3
  /\ input.sum = <<-14, 50>>
  /\ input.hit = <<FALSE, TRUE>>
  /\ input.plX = 26 /\ input.plY = 59
  /\ Last(sendLog).bytes = <<5, 0, 0, 26, 0, 59>>

\* A step in which the reader's pending read returns the last byte(s) of
\* consumed'.
ReaderTook(p) == pc = p /\ consumed' # consumed

\* The receive loop has stopped in this step, reporting an error, closing
\* the queue and sending nothing.
LoopStops ==
  /\ pc' = "stopped"
  /\ isClosed'
  /\ Len(statusLog') = Len(statusLog) + 1
  /\ Last(statusLog').state = "error"
  /\ sendLog' = sendLog /\ wire' = wire

\* C21: when the receive loop reads a message type other than 0, 2 and 3, or
\* a rectangle encoding other than 0 and 6, it stops in that step: an error
\* status is reported and the inbound queue is closed; and from then on no
\* server byte is read, no rectangle decoded, no pixel written and no
\* message handed to send.
C21_UnknownStopsLoop ==
  /\ [][(ReaderTook("msgType") /\ Last(consumed') \notin {0, 2, 3})
          => LoopStops]_vars
  /\ [][(ReaderTook("rectEnc")
          /\ getInt32(SubSeq(consumed', Len(consumed') - 3, Len(consumed')))
               \notin {0, 6})
          => LoopStops]_vars
  /\ [][pc = "stopped" =>
          /\ pc' = "stopped" /\ isClosed'
          /\ consumed' = consumed /\ decoded' = decoded
          /\ imageData' = imageData /\ updatesApplied' = updatesApplied
          /\ sendLog' = sendLog]_vars

\* C21 witness: the loop stopped on encoding 5 with the next update of the
\* server already in the queue, where it stays unread; one rectangle had
\* been decoded.
C21_Witness ==
  /\ pc = "stopped"
  /\ Errors = {"Unsupported encoding"}
  /\ Len(decoded) = 1
  /\ buffered > 0
  /\ readyState = "open"

\* The receive loop has failed: its catch has run.
LoopFailed == pc = "stopped"

\* C22: after the receive loop has failed, no further client message is
\* written to the transport.
C22_NoWriteAfterFailure == [][LoopFailed => wire' = wire]_vars

\* C23: on a transport that stays open, a non-empty backlog always has a
\* buffered-low notification due (queued, or still to come because the
\* gauge is above the low watermark), and every message accepted by send is
\* eventually passed to the transport: whenever accepted messages are
\* unwritten, a later state has all messages accepted up to then written.
C23_AcceptedEventuallyWritten ==
  /\ [](Backlog # <<>> => (lowEvents > 0 \/ bufferedAmount > bufferedLow))
  /\ (wire # sendLog) ~> (wire = sendLog)

\* C23 witness: the whole of a long run that had waited in the backlog has
\* been written, by more than one drain.
C23_Witness ==
  /\ Len(sendLog) >= BurstLen
  /\ wire = sendLog
  /\ sendQueueHead > 2
  /\ lowEvents = 0

\* The gauge after the first k backlog messages are written on top of it.
RECURSIVE GaugeAfter(_)
GaugeAfter(k) ==
  IF k = 0 THEN bufferedAmount
  ELSE GaugeAfter(k - 1) + Backlog[k].byteLength

\* The step of the bufferedamountlow listener.
LowEventDispatched == lowEvents' = lowEvents - 1

\* C24: the listener's drain on an open transport writes the first k backlog
\* messages, in order, each at a gauge at or below the low watermark; it
\* stops with the backlog empty or the gauge above the low watermark, and
\* the other messages stay in the backlog in their order.
C24_DrainOldestFirst ==
  [][(LowEventDispatched /\ readyState = "open") =>
       \E k \in 0..Len(Backlog) :
         /\ wire' = wire \o SubSeq(Backlog, 1, k)
         /\ Backlog' = SubSeq(Backlog, k + 1, Len(Backlog))
         /\ \A j \in 0..(k - 1) : GaugeAfter(j) <= bufferedLow
         /\ k = Len(Backlog) \/ GaugeAfter(k) > bufferedLow
         /\ bufferedAmount' = GaugeAfter(k)
         /\ sendLog' = sendLog]_vars

\* C24 witness: a drain has stopped at the low watermark after writing the
\* oldest backlog message, and at least two messages still wait.
C24_Witness ==
  /\ readyState = "open"
  /\ ~held
  /\ sendQueueHead >= 1
  /\ Len(Backlog) >= 2
  /\ bufferedAmount > bufferedLow
  /\ Last(wire) = sendQueue[sendQueueHead]

\* C25: a send accepted while the gauge is above the high watermark writes
\* nothing: the transport and the gauge are as before and the message is the
\* new last message of the backlog, whether or not the backlog was empty.
C25_AboveHighJoinsBacklog ==
  [][(OneSendStep /\ bufferedAmount > bufferedHigh) =>
       /\ wire' = wire
       /\ bufferedAmount' = bufferedAmount
       /\ Len(Backlog') = Len(Backlog) + 1
       /\ Backlog'[Len(Backlog')] = sendLog'[Len(sendLog')]
       /\ SubSeq(Backlog', 1, Len(Backlog)) = Backlog]_vars

\* C25 witness: the last accepted message is alone in the backlog, held back
\* by the high watermark, and every message before it has been written: the
\* backlog was empty when send was called.
C25_Witness ==
  /\ readyState = "open"
  /\ bufferedAmount > bufferedHigh
  /\ held
  /\ Len(Backlog) = 1
  /\ Len(sendLog) = Len(wire) + 1
  /\ Backlog[1] = sendLog[Len(sendLog)]

\* The number of updates that were fully applied when the last presentation
\* took place.
Presented == IF presentLog = <<>> THEN 0 ELSE Last(presentLog).applied

\* C26: at most one animation-frame callback is pending, and one is pending
\* whenever an applied update has not been presented; a presentation shows
\* the buffer as it is, so with every update applied up to then; every
\* applied update is eventually followed by a presentation; and the buffer
\* holds the decoded rectangles blitted in the order they were read, which
\* only grows at its end.
C26_PresentAfterUpdate ==
  /\ [](frames = IF framePresentPending THEN 1 ELSE 0)
  /\ [](updatesApplied > Presented => frames = 1)
  /\ [][Len(presentLog') > Len(presentLog) =>
          /\ presentLog' = Append(presentLog, Last(presentLog'))
          /\ Last(presentLog').applied = updatesApplied
          /\ Last(presentLog').data = imageData[1]]_vars
  /\ (updatesApplied > Presented) ~> (updatesApplied = Presented)
  /\ [][IsPrefix(decoded, decoded')]_vars
  /\ [](imageData # NULL =>
          imageData[1] =
            Replay([k \in 1..(fbWidth * fbHeight * 4) |-> 0], decoded))

\* C26 witness: three updates have been applied and presented by fewer than
\* three presentations, the last of which shows all three.
C26_Witness ==
  /\ updatesApplied = 3
  /\ Presented = 3
  /\ Len(presentLog) < 3
  /\ frames = 0
  /\ Len(decoded) = 3

\* The positions of the reader inside handshake().
HandshakePositions ==
  {"version", "nSec", "reasonLen", "reason", "secTypes", "secResult",
   "width", "height", "pixelFormat", "nameLen", "name"}

\* The handshake has failed with the error msg.
FailedWith(msg) == pc = "failed" /\ msg \in Errors

\* C27: a failed handshake has sent only messages of the steps before the
\* failing one: nothing after a bad banner; the version reply alone after a
\* zero security-type count, whose reason has been read in full, or after a
\* list without type 1; the version reply and the selection after a nonzero
\* security result; never a fourth message; and nothing is sent afterwards.
\* A handshake read that finds the queue closed and too short fails the
\* handshake with "connection closed" and sends nothing.
C27_FailedStepSendsNothing ==
  /\ [](pc = "failed" =>
          /\ Len(Sent) <= 3
          /\ \A k \in 1..Len(Sent) : Sent[k] = HandshakeMessages[k])
  /\ [](FailedWith("bad RFB version") => Sent = <<>>)
  /\ [](FailedWith("RFB security failed") =>
          /\ Len(Sent) = 1
          /\ consumed[EndOfVersion + 1] = 0
          /\ Len(consumed) = EndOfVersion + 5
               + getUint32(SubSeq(consumed, EndOfVersion + 2,
                                  EndOfVersion + 5)))
  /\ [](FailedWith("RFB: server does not support 'None' security") =>
          Len(Sent) = 1)
  /\ [](FailedWith("RFB security result") => Len(Sent) = 2)
  /\ [][pc = "failed" =>
          pc' = "failed" /\ sendLog' = sendLog /\ wire' = wire]_vars
  /\ [][(pc \in HandshakePositions /\ rstate = "run" /\ isClosed
          /\ buffered < Need /\ pc' # pc) =>
          /\ pc' = "failed"
          /\ Last(statusLog') = [state |-> "error",
                                 error |-> "connection closed"]
          /\ sendLog' = sendLog /\ wire' = wire]_vars

\* C27 witness: the handshake has failed on a zero security-type count after
\* reading the two-byte reason, with the version reply the only message sent.
C27_Witness ==
  /\ FailedWith("RFB security failed")
  /\ Len(consumed) = EndOfVersion + 7
  /\ Len(Sent) = 1

\* C28: at most one readExactly is suspended on the queue, and it is the
\* reader's pending one: the reader is parked exactly when the waiters list
\* holds one resolver, and a read returns or throws only while none is
\* parked, so the reads of the handshake and of the receive loop follow one
\* another without overlap.
C28_OneSuspendedRead ==
  /\ [](waiters \in {0, 1})
  /\ []((rstate = "wait") <=> (waiters = 1))
  /\ [][(consumed' # consumed \/ lastRead' # lastRead) =>
          (rstate = "run" /\ waiters = 0 /\ waiters' = 0)]_vars

\* C28 witness: the receive loop's read of a rectangle's pixels is parked,
\* after reads of the handshake had been parked and woken.
C28_Witness ==
  /\ waiters = 1
  /\ rstate = "wait"
  /\ pc = "raw"
  /\ buffered > 0
  /\ Len(arrived) > Len(consumed)

TerminalReported ==
  \E k \in 1..Len(statusLog) : statusLog[k].state \in {"error", "closed"}

\* C30: once a terminal status has been reported, no further status is
\* reported.
C30_TerminalStatusIsLast == [][TerminalReported => statusLog' = statusLog]_vars

\* The four buffer bytes of the pixel at column px of row py.
PixelAt(img, px, py) ==
  SubSeq(img[1], (py * fbWidth + px) * 4 + 1, (py * fbWidth + px) * 4 + 4)

\* C31: the decoding of a rectangle (x,y,w,h) leaves every buffer pixel
\* outside [x,x+w) x [y,y+h) as it was.
C31_OnlyOwnRegion ==
  [][(pc = "blit" /\ pc' = "blitted") =>
       \A px \in 0..(fbWidth - 1), py \in 0..(fbHeight - 1) :
         ~ ( /\ Blitted'.x <= px /\ px < Blitted'.x + Blitted'.w
             /\ Blitted'.y <= py /\ py < Blitted'.y + Blitted'.h )
         => PixelAt(imageData', px, py) = PixelAt(imageData, px, py)]_vars

\* A keyboard event is dispatched in this step; Key is the event.
KeyStep == input'.keyEvents = input.keyEvents + 1
Key == input'.lastKey
TypedChars == input.pendingCommandChars

\* A key-down of a printable single-character key without Ctrl or Meta.
Printable(ev) == ev.length = 1 /\ ~ev.ctrlKey /\ ~ev.metaKey

\* The counter and the notifications after a key-down, given whether a
\* repeated Enter or Escape counts as Enter or Escape.
CounterRule(repeatsCount) ==
  (KeyStep /\ Key.type = "keydown") =>
       LET acts == repeatsCount \/ ~Key.repeat
       IN /\ TypedChars' =
               IF Key.key \in {"Enter", "Escape"} /\ acts THEN 0
               ELSE IF Key.key = "Backspace"
                 THEN (IF TypedChars = 0 THEN 0 ELSE TypedChars - 1)
               ELSE IF Printable(Key) /\ ~Key.repeat THEN TypedChars + 1
               ELSE TypedChars
          /\ input'.commands =
               IF Key.key = "Enter" /\ acts /\ TypedChars > 0
                 THEN input.commands + 1
                 ELSE input.commands

\* Between events the counter and the notifications are as they were, and a
\* key-up changes neither.
CounterKept ==
  (~KeyStep \/ Key.type = "keyup") =>
       /\ TypedChars' = TypedChars
       /\ input'.commands = input.commands

\* C32 as stated: the counter is never negative; a key-down of Enter or of
\* Escape resets it, Backspace takes one off with a floor of zero, a
\* non-repeat printable key-down adds one; onCommand is called once by each
\* Enter key-down that finds the counter nonzero and never otherwise.
C32_Original ==
  [][/\ TypedChars >= 0 /\ TypedChars' >= 0
     /\ CounterRule(TRUE)
     /\ CounterKept]_vars

\* C32 amended: as stated, for the key-downs of Enter and Escape that are
\* not auto-repeats; a repeated Enter or Escape key-down changes nothing and
\* notifies nobody.
C32_CounterAndNotification ==
  [][/\ TypedChars >= 0 /\ TypedChars' >= 0
     /\ CounterRule(FALSE)
     /\ CounterKept]_vars

\* C32 witness: onCommand has been called twice, by two Enter key-downs each
\* preceded by a printable key-down.
C32_Witness ==
  /\ input.commands = 2
  /\ input.keyEvents = 4
  /\ input.pendingCommandChars = 0
  /\ input.lastKey.key = "Enter"

\* The KeyEvents for the Control key among the messages sent, oldest first.
ControlEvents ==
  SelectSeq(Sent, LAMBDA m : m \in {KeyEvent(TRUE, KEYSYM.Control),
                                    KeyEvent(FALSE, KEYSYM.Control)})
ControlReleased ==
  ControlEvents = <<>>
  \/ ControlEvents[Len(ControlEvents)] = KeyEvent(FALSE, KEYSYM.Control)

\* C36: a key-down of another key with Ctrl set, while ctrlDown is false,
\* that sends the key's key-down sends a Control key-down just before it;
\* and whenever every pressed key has been released, the last Control
\* KeyEvent sent, if there is one, is a key-up.
C36_SyntheticControl ==
  [][/\ (/\ KeyStep
          /\ Key.type = "keydown"
          /\ Key.ctrlKey
          /\ ~input.ctrlDown
          /\ Key.key # "Control"
          /\ Len(sendLog') > Len(sendLog))
        => /\ Len(sendLog') = Len(sendLog) + 2
           /\ Sent'[Len(sendLog) + 1] = KeyEvent(TRUE, KEYSYM.Control)
           /\ Sent'[Len(sendLog) + 2][1] = 4
           /\ Sent'[Len(sendLog) + 2][2] = 1
           /\ Sent'[Len(sendLog) + 2] # KeyEvent(TRUE, KEYSYM.Control)
     /\ (input'.heldKeys = {}) => ControlReleased']_vars

\* C36 witness: Ctrl+a was pressed and released with no Control key event:
\* Control down, a down, a up, Control up have been sent.
C36_Witness ==
  /\ input.heldKeys = {}
  /\ ~input.ctrlSynth
  /\ Len(Sent) >= 4
  /\ SubSeq(Sent, Len(Sent) - 3, Len(Sent)) =
       <<KeyEvent(TRUE, KEYSYM.Control), KeyEvent(TRUE, 97),
         KeyEvent(FALSE, 97), KeyEvent(FALSE, KEYSYM.Control)>>

\* A touch event is dispatched in this step; TouchEv is the event.
TouchStep ==
  /\ input'.events = input.events + 1
  /\ input'.lastTouch.at = input'.events
TouchEv == input'.lastTouch
Identifiers(list) == {list[k].identifier : k \in 1..Len(list)}

\* The handlers' state other than the counters of the model.
HandlerState ==
  <<input.touchId, input.lastAbsX, input.lastAbsY, input.plX, input.plY,
    input.locked, sendQueue, sendQueueHead, bufferedAmount>>

\* The step sends nothing and changes no state of the client.
Ignored == Sent' = Sent /\ HandlerState' = HandlerState

\* C33: touchId is null or one identifier; a touch-start sets it only when
\* it is null; a touch-move whose touches, or a touch-end whose
\* changedTouches, do not hold the tracked identifier is ignored; a
\* touch-end for the tracked identifier sends one PointerEvent with mask 0
\* and clears touchId, and the next touch-start sets it again.
C33_OneTrackedTouch ==
  [][/\ input'.touchId \in {NULL} \cup {Some(id) : id \in TouchIds}
     /\ (TouchStep /\ TouchEv.type = "touchstart") =>
          IF input.touchId # NULL
            THEN input'.touchId = input.touchId
            ELSE /\ input'.touchId =
                      Some(TouchEv.changedTouches[1].identifier)
                 /\ Len(Sent') = Len(Sent) + 1
                 /\ Sent'[Len(Sent')][1] = 5
                 /\ Sent'[Len(Sent')][2] = 1
     /\ (/\ TouchStep /\ TouchEv.type = "touchmove"
         /\ \/ input.touchId = NULL
            \/ input.touchId[1] \notin Identifiers(TouchEv.touches))
          => Ignored
     /\ (/\ TouchStep /\ TouchEv.type = "touchend"
         /\ \/ input.touchId = NULL
            \/ input.touchId[1] \notin Identifiers(TouchEv.changedTouches))
          => Ignored
     /\ (/\ TouchStep /\ TouchEv.type = "touchend"
         /\ input.touchId # NULL
         /\ input.touchId[1] \in Identifiers(TouchEv.changedTouches))
          => /\ input'.touchId = NULL
             /\ Len(Sent') = Len(Sent) + 1
             /\ Sent'[Len(Sent')][1] = 5
             /\ Sent'[Len(Sent')][2] = 0]_vars

\* C33 witness: a finger was tracked and lifted, and the touch-start of
\* finger 1 that followed has been accepted: the last two PointerEvents
\* carry the masks 0 and 1.
C33_Witness ==
  /\ input.touchId = Some(1)
  /\ input.lastTouch.type = "touchstart"
  /\ input.lastTouch.at = 3
  /\ Len(Sent) >= 3
  /\ Sent[Len(Sent)][1] = 5 /\ Sent[Len(Sent)][2] = 1
  /\ Sent[Len(Sent) - 1][1] = 5 /\ Sent[Len(Sent) - 1][2] = 0

\* The PointerEvents among the messages sent, oldest first.
PointerEvents == SelectSeq(Sent, LAMBDA m : Len(m) = 6 /\ m[1] = 5)

\* C34: after a handshake with width >= 1 and height >= 1 every PointerEvent
\* sent carries 0 <= x <= width - 1 and 0 <= y <= height - 1, and the
\* pointer-lock cursor is within [0, width - 1] x [0, height - 1], whatever
\* the mouse, wheel, touch and pointer-lock events.
C34_CoordinatesInRange ==
  (fbWidth >= 1 /\ fbHeight >= 1) =>
    /\ \A k \in 1..Len(PointerEvents) :
         /\ getUint16(SubSeq(PointerEvents[k], 3, 4)) \in 0..(fbWidth - 1)
         /\ getUint16(SubSeq(PointerEvents[k], 5, 6)) \in 0..(fbHeight - 1)
    /\ input.plX >= 0 /\ input.plX <= (fbWidth - 1) * input.den
    /\ input.plY >= 0 /\ input.plY <= (fbHeight - 1) * input.den

\* C34 witness: under pointer lock a relative motion has been cut at the
\* right and bottom edges, and the PointerEvent sent for it carries
\* (width - 1, height - 1).
C34_Witness ==
  /\ input.locked
  /\ input.hit = <<TRUE, TRUE>>
  /\ input.plX = (fbWidth - 1) * input.den
  /\ input.plY = (fbHeight - 1) * input.den
  /\ Last(sendLog).bytes = <<5, 0>> \o writeU16(fbWidth - 1)
                                    \o writeU16(fbHeight - 1)

\* C35: on entering pointer lock the virtual cursor is the last absolute
\* position recorded from a mouse or touch event, whatever that position,
\* and the centre of the framebuffer only when none has been recorded.
C35_LockSeed ==
  [][(~input.locked /\ input'.locked) =>
       IF input.absSeen
         THEN /\ input'.plX = input.lastAbsX * input.den
              /\ input'.plY = input.lastAbsY * input.den
         ELSE /\ input'.plX = (fbWidth \div 2) * input.den
              /\ input'.plY = (fbHeight \div 2) * input.den]_vars

\* The ServerInit of the server's stream, parsed from the bytes that have
\* arrived: it follows the 12-byte version, the security types and the
\* 4-byte security result.
ServerInitBytes ==
  SubSeq(arrived, 12 + 1 + arrived[13] + 4 + 1, Len(arrived))
ServerInitName ==
  TextDecode(SubSeq(ServerInitBytes, 25,
                    24 + getUint32(SubSeq(ServerInitBytes, 21, 24))))

\* C38: every connected status reported carries the width, the height and
\* the desktop name of ServerInit; in particular the last one does.
C38_ConnectedCarriesServerInit ==
  \A k \in 1..Len(statusLog) :
    statusLog[k].state = "connected" =>
      /\ statusLog[k].width = getUint16(SubSeq(ServerInitBytes, 1, 2))
      /\ statusLog[k].height = getUint16(SubSeq(ServerInitBytes, 3, 4))
      /\ statusLog[k].name = ServerInitName

\* A KeyEvent or a PointerEvent.
InputMessage(m) == (Len(m) = 8 /\ m[1] = 4) \/ (Len(m) = 6 /\ m[1] = 5)

\* Every input message of the log follows a non-incremental
\* FramebufferUpdateRequest.
AfterFirstRequest(log) ==
  \A k \in 1..Len(log) :
    InputMessage(log[k].bytes) =>
      \E j \in 1..(k - 1) :
        /\ Len(log[j].bytes) = 10
        /\ log[j].bytes[1] = 3
        /\ log[j].bytes[2] = 0

\* C37: every KeyEvent and PointerEvent handed to send(), waiting in the
\* send queue or written to the transport follows the first
\* FramebufferUpdateRequest, which ends the handshake.
C37_InputAfterHandshake ==
  /\ AfterFirstRequest(sendLog)
  /\ AfterFirstRequest(wire)

\* C37 witness: a key was pressed and the mouse moved once the client was
\* connected, and both messages have been written to the transport.
C37_Witness ==
  /\ input.keyEvents = 1 /\ input.events = 1
  /\ Len(wire) = 8
  /\ InputMessage(wire[7].bytes)
  /\ InputMessage(wire[8].bytes)

\* The bytes that the reader consumes in this step.
Consumed == SubSeq(consumed', Len(consumed) + 1, Len(consumed'))

\* The pixel buffer, the presentation requests and the client's sends.
Outputs ==
  <<imageData, framePresentPending, frames, presentLog, sendLog, sendQueue,
    sendQueueHead, wire>>

\* The read that the reader awaits at position p returns in this step.
ReadAt(p) == pc = p /\ pc' \notin {p, "stopped"}

\* The reader handles a Bell or a part of a ServerCutText in this step.
BellOrCutStep ==
  \/ pc = "msgType" /\ Consumed \in {<<2>>, <<3>>}
  \/ ReadAt("cutPadding") \/ ReadAt("cutLen") \/ ReadAt("cutText")

\* C39: handling a Bell or a ServerCutText leaves the pixel buffer, the
\* presentation requests and the sends as they were; a Bell consumes its
\* type byte only, and a ServerCutText consumes after its type byte 3 bytes
\* of padding, 4 bytes holding the length L most significant byte first,
\* and L bytes, after which the reader reads a message type.
C39_BellAndCutText ==
  [][/\ BellOrCutStep => Outputs' = Outputs
     /\ (pc = "msgType" /\ Consumed = <<2>>) => pc' = "msgType"
     /\ (pc = "msgType" /\ Consumed = <<3>>) => pc' = "cutPadding"
     /\ ReadAt("cutPadding") =>
          Len(Consumed) = 3 /\ pc' = "cutLen"
     /\ ReadAt("cutLen") =>
          /\ Len(Consumed) = 4
          /\ loc'.len = ((Consumed[1] * 256 + Consumed[2]) * 256
                          + Consumed[3]) * 256 + Consumed[4]
          /\ pc' = "cutText"
     /\ ReadAt("cutText") =>
          Len(Consumed) = loc.len /\ pc' = "msgType"]_vars

\* C39 witness: a Bell and later a ServerCutText of two bytes have been
\* handled, and the byte read after the text was the type of the
\* FramebufferUpdate that follows it.
C39_Witness ==
  /\ pc = "fuPadding"
  /\ Len(consumed) > Len(ServerCutText(<<104, 105>>))
  /\ SubSeq(consumed, Len(consumed) - Len(ServerCutText(<<104, 105>>)),
            Len(consumed)) = ServerCutText(<<104, 105>>) \o <<0>>
  /\ \E k \in 1..Len(consumed) : consumed[k] = 2

\* The compressed bytes of a ZLib rectangle have been read in this step.
ZlibDataRead ==
  pc = "zdata" /\ pc' # "zdata" /\ Len(Consumed) = loc.len

\* What the context that the earlier rectangles left makes of the
\* compressed bytes read in this step.
Carried ==
  inflate(IF zlibStream = NULL THEN Unzlib ELSE zlibStream[1], Consumed,
          <<>>)

\* C40: the inflate context is made at a ZLib rectangle when there is none,
\* is never dropped, and changes only by inflating the compressed bytes of a
\* ZLib rectangle from the state that the earlier rectangles left; the
\* pixels of a decoded ZLib rectangle are what that carried state puts out.
C40_OneInflateContext ==
  [][/\ zlibStream # NULL => zlibStream' # NULL
     /\ zlibStream' # zlibStream => ZlibDataRead
     /\ ZlibDataRead =>
          /\ zlibStream' = Some(Carried.zs)
          /\ Len(decoded') = Len(decoded) + 1 =>
               decoded'[Len(decoded')].raw = Carried.out]_vars

\* C40 witness: the ZLib rectangle of the second update began with a
\* reference to the last byte put out for the ZLib rectangle of the first
\* update, and was decoded to that byte followed by its own literals.
C40_Witness ==
  /\ zlibStream # NULL
  /\ updatesApplied >= 1
  /\ \E k \in 1..Len(decoded) :
       decoded[k].x = 1 /\ decoded[k].raw = <<3, 5, 6, 0>>
====
